---- MODULE Spec2Model ----
(***************************************************************************)
(* The FxCore orchestration pipeline (packages/fx-core/src/core/FxCore.ts).*)
(* Every hooked method of FxCore is a pipeline: the middleware list of its *)
(* @hooks decorator wrapped around the method body (the target operation). *)
(* A run of a pipeline enters the middleware one by one (before phases),   *)
(* runs the target, and unwinds through the entered middleware (after      *)
(* phases).  The middleware bodies live in core/middleware/*, which is not *)
(* part of the modelled sources; they are modelled from the specification. *)
(***************************************************************************)
EXTENDS Integers, Sequences, FiniteSets, TLC

VARIABLES
    pc,       \* pc[p]: "idle", "before", "target", "after", "done", "escaped"
    entry,    \* entry[p]: the public method that was called
    op,       \* op[p]: the hooked method the call was dispatched to
    path,     \* path[p]: inputs.projectPath of the run
    idx,      \* idx[p]: the middleware to enter next / to unwind next
    ctx,      \* ctx[p]: the CoreHookContext of the run
    tin,      \* tin[p]: the inputs of the call, and what the target read from them
    pending,  \* pending[p]: the collaborator call the target is awaiting
    result,   \* result[p]: ctx.result, the Result the run returns
    thrown,   \* thrown[p]: an exception is propagating out of the run
    log,      \* log[p]: what the run did so far, in order
    lock,     \* lock[d]: the run holding the lock of project path d, or Free
    disk,     \* disk[d]: the project directory at path d
    apiV3,        \* isV3(): the process-wide API-generation flag
    configUnify,  \* isConfigUnifyEnabled(): the process-wide config-unify flag
    currentStage, \* the process-wide current stage, as setCurrentStage left it
    unit,            \* the unit a caller holds beside the pipelines; with "none" the
                     \* five variables below are empty
    inputs,          \* the Inputs the unit is called with
    folder,          \* package.json and .gitignore of the project folder
    projectSetting,  \* context.projectSetting.components
    node,            \* the fields of the SubscriptionNode
    lastCall         \* the last call made on the unit: what it returned, or its name

coreVars == <<pc, entry, op, path, idx, ctx, tin, pending, result, thrown, log, lock, disk,
              apiV3, configUnify, currentStage>>

unitVars == <<unit, inputs, folder, projectSetting, node, lastCall>>

vars == <<coreVars, unitVars>>

-----------------------------------------------------------------------------
(* Bounds *)

\* the values a document (settings, environment state, local settings) takes
MaxVal == 1

Vals == 0..MaxVal
Undef == 0 - 1
Procs == {1, 2}
Paths == {"A", "B"}
Free == 0

\* the longest application name a caller passes
MaxName == 2

\* the characters of an application name: a letter, a digit, any other character
Chars == {"a", "1", "-"}

Names == UNION {[1..n -> Chars] : n \in 0..MaxName}

\* inputs["app-name"] is undefined
NoName == <<"undefined">>

\* ^[a-zA-Z][\da-zA-Z]+$ : a letter, then one or more letters or digits
ProjectNamePattern(n) ==
    /\ Len(n) >= 2
    /\ n[1] = "a"
    /\ \A i \in 2..Len(n) : n[i] \in {"a", "1"}

\* a validation that lets every name pass
ValidatesAny(n) == TRUE

\* jsonschema.validate(appName, {pattern}): the pattern keyword constrains strings
\* only, a value that is not a string passes
Validates(n) == n = NoName \/ ProjectNamePattern(n)

\* the application name of the local environment
getLocalAppName(n) == n \o <<"-local-debug">>

\* environmentManager.getDefaultEnvName(), environmentManager.getLocalEnvName()
DefaultEnv == "dev"
LocalEnv == "local"
EnvNames == {DefaultEnv, LocalEnv, "test"}

\* a file that does not exist
NoFile == <<"ENOENT">>

\* newEnvConfigData(appName): the default configuration document of an environment
newEnvConfigData(n) == n

\* the application name of a project that an earlier release created
OldName == <<"a", "a">>

-----------------------------------------------------------------------------
(* The middleware lists of the @hooks decorators *)

EH == "ErrorHandlerMW"
CL == "ConcurrentLockerMW"
PM == "ProjectMigratorMW"
PSL == "ProjectSettingsLoaderMW"
LSL == "LocalSettingsLoaderMW"
SL2 == "SolutionLoaderMW"
SL3 == "SolutionLoaderMW_V3"
QM == "QuestionModelMW"
CI == "ContextInjectorMW"
PSW == "ProjectSettingsWriterMW"
LSW == "LocalSettingsWriterMW"
EL2(skip) == IF skip THEN "EnvInfoLoaderMW(true)" ELSE "EnvInfoLoaderMW(false)"
EL3(skip) == IF skip THEN "EnvInfoLoaderMW_V3(true)" ELSE "EnvInfoLoaderMW_V3(false)"
EW2(skip) == IF skip THEN "EnvInfoWriterMW(true)" ELSE "EnvInfoWriterMW()"
EW3(skip) == IF skip THEN "EnvInfoWriterMW_V3(true)" ELSE "EnvInfoWriterMW_V3()"

createProjectV2_hooks ==
    <<EH, QM, CI, PSW, EW2(TRUE)>>

\* createProjectV3 as it would be with the locker in its list
createProjectV3_hooksWithLocker ==
    <<EH, CL, QM, CI>>

createProjectV3_hooks ==
    <<EH, QM, CI>>

\* provisionResourcesV2 as it would be without the locker in its list
provisionResourcesV2_hooksNoLocker ==
    <<EH, PM, PSL, EL2(FALSE), SL2, QM, CI, PSW, EW2(FALSE)>>

provisionResourcesV2_hooks ==
    <<EH, CL, PM, PSL, EL2(FALSE), SL2, QM, CI, PSW, EW2(FALSE)>>

provisionResourcesV3_hooks ==
    <<EH, CL, PM, PSL, EL3(FALSE), SL3, QM, CI, PSW, EW3(FALSE)>>

\* deployArtifactsV2 as it would be with its two writers listed the other way round
deployArtifactsV2_hooksWritersSwapped ==
    <<EH, CL, PM, PSL, EL2(FALSE), SL2, QM, CI, EW2(FALSE), PSW>>

deployArtifactsV2_hooks ==
    <<EH, CL, PM, PSL, EL2(FALSE), SL2, QM, CI, PSW, EW2(FALSE)>>

deployArtifactsV3_hooks ==
    <<EH, CL, PM, PSL, EL3(FALSE), SL3, QM, CI, PSW, EW3(FALSE)>>

localDebugV2_hooks ==
    <<EH, CL, PM, PSL, EL2(~configUnify), LSL,
      SL2, QM, CI, PSW, EW2(~configUnify), LSW>>

\* publishApplicationV2 as it would be with the solution loader listed before the
\* loaders of the project files
publishApplicationV2_hooksSolutionFirst ==
    <<EH, CL, PM, SL2, PSL, EL2(FALSE), QM, CI, PSW, EW2(FALSE)>>

publishApplicationV2_hooks ==
    <<EH, CL, PM, PSL, EL2(FALSE), SL2, QM, CI, PSW, EW2(FALSE)>>

publishApplicationV3_hooks ==
    <<EH, CL, PM, PSL, EL2(FALSE), SL2, QM, CI, PSW, EW2(FALSE)>>

\* the pipeline of executeUserTaskV2 with the locker listed after the loaders
executeUserTaskV2_hooksLockerLate ==
    <<EH, PM, PSL, EL2(FALSE), LSL, SL2, CL, QM, CI, PSW, EW2(FALSE)>>

executeUserTaskV2_hooks ==
    <<EH, CL, PM, PSL, EL2(FALSE), LSL, SL2, QM, CI, PSW, EW2(FALSE)>>

executeUserTaskV3_hooks ==
    <<EH, CL, PM, PSL, EL3(FALSE), LSL, SL3, QM, CI, PSW, EW2(FALSE)>>

getQuestions_hooks ==
    <<EH, CL, PSL, EL2(TRUE), SL2, CI, EW2(FALSE)>>

getQuestionsForUserTask_hooks ==
    <<EH, CL, PSL, EL2(TRUE), SL2, CI, EW2(FALSE)>>

getProjectConfig_hooks ==
    <<EH, CL, PM, PSL, EL2(FALSE), LSL, CI>>

getProjectConfigV3_hooks ==
    <<EH, CL, PSL, CI>>

grantPermissionV2_hooks ==
    <<EH, CL, PM, PSL, EL2(FALSE), SL2, QM, CI>>

grantPermissionV3_hooks ==
    <<EH, CL, PM, PSL, EL3(FALSE), QM, CI>>

checkPermissionV2_hooks ==
    <<EH, CL, PM, PSL, EL2(FALSE), SL2, QM, CI>>

checkPermissionV3_hooks ==
    <<EH, CL, PM, PSL, EL3(FALSE), CI>>

listCollaboratorV2_hooks ==
    <<EH, CL, PM, PSL, EL2(FALSE), SL2, QM, CI>>

listCollaboratorV3_hooks ==
    <<EH, CL, PM, PSL, EL3(FALSE), CI>>

getSelectedEnv_hooks ==
    <<EH, CL, PSL, EL2(FALSE), CI>>

encrypt_hooks ==
    <<EH, CL, PSL, EL2(TRUE), CI>>

decrypt_hooks ==
    <<EH, CL, PSL, EL2(TRUE), CI>>

createEnv_hooks ==
    <<EH, CL, PSL, SL2, EL2(TRUE), CI>>

activateEnv_hooks ==
    <<EH, CL, PM, PSL, SL2, CI, PSW>>

init_hooks ==
    <<EH, QM, CI, PSW>>

addFeature_hooks ==
    <<EH, CL, PSL, SL3, EL3(FALSE), QM, CI, PSW>>

\* the pipeline of a hooked method; a method without decorator has none
Hooks(o) ==
    CASE o = "createProjectV2" -> createProjectV2_hooks
      [] o = "createProjectV3" -> createProjectV3_hooks
      [] o = "provisionResourcesV2" -> provisionResourcesV2_hooks
      [] o = "provisionResourcesV3" -> provisionResourcesV3_hooks
      [] o = "deployArtifactsV2" -> deployArtifactsV2_hooks
      [] o = "deployArtifactsV3" -> deployArtifactsV3_hooks
      [] o = "localDebugV2" -> localDebugV2_hooks
      [] o = "publishApplicationV2" -> publishApplicationV2_hooks
      [] o = "publishApplicationV3" -> publishApplicationV3_hooks
      [] o = "executeUserTaskV2" -> executeUserTaskV2_hooks
      [] o = "executeUserTaskV3" -> executeUserTaskV3_hooks
      [] o = "getQuestions" -> getQuestions_hooks
      [] o = "getQuestionsForUserTask" -> getQuestionsForUserTask_hooks
      [] o = "getProjectConfig" -> getProjectConfig_hooks
      [] o = "getProjectConfigV3" -> getProjectConfigV3_hooks
      [] o = "grantPermissionV2" -> grantPermissionV2_hooks
      [] o = "grantPermissionV3" -> grantPermissionV3_hooks
      [] o = "checkPermissionV2" -> checkPermissionV2_hooks
      [] o = "checkPermissionV3" -> checkPermissionV3_hooks
      [] o = "listCollaboratorV2" -> listCollaboratorV2_hooks
      [] o = "listCollaboratorV3" -> listCollaboratorV3_hooks
      [] o = "getSelectedEnv" -> getSelectedEnv_hooks
      [] o = "encrypt" -> encrypt_hooks
      [] o = "decrypt" -> decrypt_hooks
      [] o = "createEnv" -> createEnv_hooks
      [] o = "activateEnv" -> activateEnv_hooks
      [] o = "init" -> init_hooks
      [] o = "addFeature" -> addFeature_hooks
      [] OTHER -> << >>

-----------------------------------------------------------------------------
(* The public entry points and their dispatch on the API generation *)

Entries ==
    {"createProject", "provisionResources", "deployArtifacts", "localDebug",
     "publishApplication", "executeUserTask", "grantPermission", "checkPermission",
     "listCollaborator", "getQuestions", "getQuestionsForUserTask", "getProjectConfig",
     "getProjectConfigV3", "getSelectedEnv", "encrypt", "decrypt", "buildArtifacts",
     "createEnv", "activateEnv", "init", "addFeature", "provisionTeamsAppForCLI"}

\* entry points that take the implementations of the V2 generation whatever the flag
DispatchAlwaysV2(e) ==
    IF e \in {"createProject", "provisionResources", "deployArtifacts", "publishApplication",
              "executeUserTask", "grantPermission", "checkPermission", "listCollaborator"}
    THEN e \o "V2"
    ELSE IF e = "localDebug" THEN "localDebugV2" ELSE e

Dispatch(e) ==
    CASE e = "createProject" -> IF apiV3 THEN "createProjectV3" ELSE "createProjectV2"
      [] e = "provisionResources" -> IF apiV3 THEN "provisionResourcesV3" ELSE "provisionResourcesV2"
      [] e = "deployArtifacts" -> IF apiV3 THEN "deployArtifactsV3" ELSE "deployArtifactsV2"
      [] e = "localDebug" -> IF apiV3 THEN "provisionResourcesV3" ELSE "localDebugV2"
      [] e = "publishApplication" -> IF apiV3 THEN "publishApplicationV3" ELSE "publishApplicationV2"
      [] e = "executeUserTask" -> IF apiV3 THEN "executeUserTaskV3" ELSE "executeUserTaskV2"
      [] e = "grantPermission" -> IF apiV3 THEN "grantPermissionV3" ELSE "grantPermissionV2"
      [] e = "checkPermission" -> IF apiV3 THEN "checkPermissionV3" ELSE "checkPermissionV2"
      [] e = "listCollaborator" -> IF apiV3 THEN "listCollaboratorV3" ELSE "listCollaboratorV2"
      [] OTHER -> e

-----------------------------------------------------------------------------
(* The context of a run, the project directory *)

NoCtx ==
    [projectSettings |-> Undef, envInfoV2 |-> Undef, envInfoV3 |-> Undef,
     localSettings |-> Undef, solutionV2 |-> "none", solutionV3 |-> "none",
     contextV2 |-> FALSE, injected |-> FALSE, appName |-> NoName, envName |-> Undef]

\* what a target reads besides the context: appName matches ProjectNamePattern (or
\* appPackagePath is given), func.namespace is not empty, isPureExistingApp, the user
\* answered askNewEnvironment (or inputs.env is a listed environment), fs.copy worked,
\* the solution implements the optional method the target is about to call, the root
\* folder of the new project can be made, inputs.existingAppConfig says the project
\* is created from an existing app; and what the caller passed: inputs["app-name"],
\* the environment names askNewEnvironment resolves to, inputs.env as it is now and
\* as the caller passed it ("none" when it passed none)
NoTin ==
    [nameOk |-> TRUE, nsOk |-> TRUE, pure |-> FALSE, answered |-> TRUE, copyOk |-> TRUE,
     impl |-> TRUE, folderOk |-> TRUE, existingApp |-> FALSE, solutionOk |-> TRUE,
     appName |-> OldName, targetEnv |-> "test", sourceEnv |-> DefaultEnv,
     env |-> "none", envGiven |-> "none"]

\* what the target reads, t, for a call that was made with the inputs of t0
WithInputs(t, t0) ==
    [t EXCEPT !.appName = t0.appName, !.targetEnv = t0.targetEnv,
              !.sourceEnv = t0.sourceEnv, !.env = t0.env, !.envGiven = t0.envGiven]

\* A project directory: whether it exists, whether it is of a legacy format, the
\* appName of its settings document, the configuration document of each environment
\* and the environments that have a state document.

\* a path with no project directory
Absent ==
    [exists |-> FALSE, legacy |-> FALSE, appName |-> NoName,
     envConfig |-> [e \in EnvNames |-> NoFile], envState |-> {}]

\* a project of a legacy format, as an earlier release of the toolkit created and
\* provisioned it
Legacy ==
    [exists |-> TRUE, legacy |-> TRUE, appName |-> OldName,
     envConfig |-> [e \in EnvNames |-> IF e = DefaultEnv THEN newEnvConfigData(OldName)
                                       ELSE NoFile],
     envState |-> {DefaultEnv}]

\* The documents of a project (settings, environment state, local settings) are
\* counted from what the directory held when the run loaded them: a loader reads
\* document 0, and v > 0 is that document as changed v-fold by the run.
OnDisk == 0

\* one lock for every project path
LockKeyGlobal(d) == "A"

\* the lock is named by the project path it guards
LockKey(d) == d

\* an entry of the log of a run: what happened (kind, what), the document value and
\* the result it carried, and whether the run held the lock of its path then
Ev(p, kind, what, val, res) ==
    [kind |-> kind, what |-> what, val |-> val, res |-> res,
     held |-> lock[LockKey(path[p])] = p]

Cur(p) == Hooks(op[p])[idx[p]]

\* the events of a kind in the log of a run
Events(p, k) == SelectSeq(log[p], LAMBDA e : e.kind = k)

-----------------------------------------------------------------------------
(* The units beside the pipelines: ensureBasicFolderStructure, the feature list *)
(* of createProjectV3, ApimFeature.add and its configApim action, and the      *)
(* SubscriptionNode of the account tree.  A caller holds one of them (unit)    *)
(* and calls it any number of times; lastCall is the last call, or its result. *)

Platforms == {"vs", "vsc", "cli"}

Capabilities == {"Tab", "TabSPFx", "Bot", "MessageExtension"}

\* the Inputs of a call: projectPath ("undefined" when the caller gave none),
\* platform, inputs["app-name"], inputs.capabilities and
\* inputs.existingAppConfig.isCreatedFromExistingApp
NoInputs ==
    [projectPath |-> "A", platform |-> "vsc", appName |-> OldName, capabilities |-> {},
     existingApp |-> FALSE]

\* the two files of a project folder that ensureBasicFolderStructure looks at
NoFolder == [packageJson |-> NoFile, gitignore |-> NoFile]

\* JSON.stringify of the package.json of a new project: an undefined name is left out
packageJson(n) ==
    (IF n = NoName THEN << >> ELSE <<"name">> \o n)
        \o <<"version: 0.0.1", "description:", "author:", "scripts.test",
             "devDependencies: @microsoft/teamsfx-cli 0.*", "license: MIT">>

\* the entries of the .gitignore of a new project that keep local secrets out
LocalSecretEntries ==
    <<".ConfigFolderName/InputConfigsFolderName/localSettingsFileName",
      ".ConfigFolderName/StatesFolderName/*.userdata", ".DS_Store", ".env.teamsfx.local",
      "subscriptionInfo.json">>

\* the lines of the .gitignore of a new project
gitIgnoreContent(platform, unify) ==
    <<"node_modules">> \o LocalSecretEntries \o <<"BuildFolderName">>
        \o (IF unify THEN <<".ConfigFolderName/InputConfigsFolderName/config.local.json",
                            ".ConfigFolderName/StatesFolderName/state.local.json">>
            ELSE << >>)
        \o (IF platform = "vs" THEN <<"appsettings.Development.json">> ELSE << >>)

\* the fs.writeFile that rejects in a call, "none" when none does
WriteFaults == {"none", "package.json", ".gitignore"}

\* ensureBasicFolderStructure that writes package.json whether or not one is there
ensureBasicFolderStructureOverwriting(i, f, unify, fault) ==
    IF i.projectPath = "undefined" THEN [res |-> "ObjectIsUndefinedError", folder |-> f]
    ELSE LET pkg == i.platform # "vs"
             f1 == IF pkg /\ fault # "package.json"
                   THEN [f EXCEPT !.packageJson = packageJson(i.appName)] ELSE f
         IN  IF pkg /\ fault = "package.json" THEN [res |-> "WriteFileError", folder |-> f]
             ELSE IF f1.gitignore # NoFile THEN [res |-> "ok", folder |-> f1]
             ELSE IF fault = ".gitignore" THEN [res |-> "WriteFileError", folder |-> f1]
             ELSE [res |-> "ok",
                   folder |-> [f1 EXCEPT !.gitignore = gitIgnoreContent(i.platform, unify)]]

\* ensureBasicFolderStructure(inputs) on the folder f: what it returns and the
\* folder it leaves
ensureBasicFolderStructure(i, f, unify, fault) ==
    IF i.projectPath = "undefined" THEN [res |-> "ObjectIsUndefinedError", folder |-> f]
    ELSE LET pkg == i.platform # "vs" /\ f.packageJson = NoFile
             f1 == IF pkg /\ fault # "package.json"
                   THEN [f EXCEPT !.packageJson = packageJson(i.appName)] ELSE f
         IN  IF pkg /\ fault = "package.json" THEN [res |-> "WriteFileError", folder |-> f]
             ELSE IF f1.gitignore # NoFile THEN [res |-> "ok", folder |-> f1]
             ELSE IF fault = ".gitignore" THEN [res |-> "WriteFileError", folder |-> f1]
             ELSE [res |-> "ok",
                   folder |-> [f1 EXCEPT !.gitignore = gitIgnoreContent(i.platform, unify)]]

\* a feature list with frontend for every project that has a tab of any kind
featuresFrontendForSPFx(i) ==
    (IF "TabSPFx" \notin i.capabilities THEN <<"aad">> ELSE << >>)
        \o (IF i.platform = "vs" THEN <<"dotnet">>
            ELSE (IF i.capabilities \cap {"Tab", "TabSPFx"} # {} THEN <<"frontend">> ELSE << >>)
                 \o (IF i.capabilities \cap {"Bot", "MessageExtension"} # {}
                     THEN <<"bot">> ELSE << >>))

\* the features createProjectV3 hands to addFeature
features(i) ==
    (IF "TabSPFx" \notin i.capabilities THEN <<"aad">> ELSE << >>)
        \o (IF i.platform = "vs" THEN <<"dotnet">>
            ELSE (IF "Tab" \in i.capabilities THEN <<"frontend">>
                  ELSE IF "TabSPFx" \in i.capabilities THEN <<"spfx">>
                  ELSE << >>)
                 \o (IF i.capabilities \cap {"Bot", "MessageExtension"} # {}
                     THEN <<"bot">> ELSE << >>))

ComponentNames == {"teams-tab", "teams-bot", "teams-api", "apim"}

\* getComponent(projectSetting, name) finds a component
getComponent(ps, n) == \E k \in 1..Len(ps) : ps[k].name = n

\* hasApi(projectSetting): the project has an API component
hasApi(ps) == getComponent(ps, "teams-api")

\* ApimFeature.add that always asks for teams-api.add
ApimFeature_addAlwaysApi(ps) ==
    IF getComponent(ps, "apim") THEN <<"undefined">>
    ELSE <<"group", "sequential", "teams-api.add", "apim-feature.configApim", "bicep.init",
           "apim-feature.generateCode", "apim.generateBicep", "apim-config.generateBicep">>

\* ApimFeature.add: ok(undefined), or the group with its mode and the actions in order
ApimFeature_add(ps) ==
    IF getComponent(ps, "apim") THEN <<"undefined">>
    ELSE <<"group", "sequential">>
            \o (IF ~hasApi(ps) THEN <<"teams-api.add">> ELSE << >>)
            \o <<"apim-feature.configApim", "bicep.init", "apim-feature.generateCode",
                 "apim.generateBicep", "apim-config.generateBicep">>

\* plan of the action apim-feature.configApim
configApim_plan(ps) ==
    IF getComponent(ps, "apim") THEN << >>
    ELSE <<"add component 'apim' in projectSettings">>

\* execute of apim-feature.configApim that does not look for the component first
configApim_executeAgain(ps) ==
    LET conn == (IF getComponent(ps, "teams-tab") THEN <<"teams-tab">> ELSE << >>)
                    \o (IF getComponent(ps, "teams-bot") THEN <<"teams-bot">> ELSE << >>)
    IN  [effects |-> <<"file replace projectSettings">>,
         projectSetting |-> Append(ps, [name |-> "apim", connections |-> conn])]

\* execute of apim-feature.configApim: the effects it reports and the settings it
\* leaves
configApim_execute(ps) ==
    IF getComponent(ps, "apim") THEN [effects |-> << >>, projectSetting |-> ps]
    ELSE LET conn == (IF getComponent(ps, "teams-tab") THEN <<"teams-tab">> ELSE << >>)
                        \o (IF getComponent(ps, "teams-bot") THEN <<"teams-bot">> ELSE << >>)
         IN  [effects |-> <<"file replace projectSettings">>,
              projectSetting |-> Append(ps, [name |-> "apim", connections |-> conn])]

\* the subscriptions a user can select in the account tree
Subscriptions == {"sub1", "sub2"}

\* a SubscriptionNode as its constructor leaves it
NewNode ==
    [subscription |-> "undefined", label |-> <<"">>, tooltip |-> <<"undefined">>,
     contextValue |-> "undefined", iconPath |-> "undefined"]

NoSubscriptionsLabel == <<"teamstoolkit.accountTree.noSubscriptions">>

\* util.format(localize("teamstoolkit.accountTree.totalSubscriptions"), n)
TotalSubscriptionsLabel(n) == <<"teamstoolkit.accountTree.totalSubscriptions", ToString(n)>>

\* getTreeItem: the node it returns
getTreeItem(nd) ==
    IF nd.subscription # "undefined"
    THEN [nd EXCEPT !.label = <<nd.subscription>>, !.tooltip = <<nd.subscription>>,
                    !.contextValue = "selectSubscription",
                    !.iconPath = "subscriptionSelected"]
    ELSE nd

\* setEmptySubscription, in a workspace that is a valid project or is not
setEmptySubscription(nd, validProject) ==
    [nd EXCEPT !.contextValue = IF validProject THEN "emptySubscription"
                                ELSE "invalidFxProject",
               !.label = NoSubscriptionsLabel,
               !.tooltip = <<"teamstoolkit.accountTree.noSubscriptionsTooltip">>,
               !.iconPath = "warning"]

-----------------------------------------------------------------------------
(* The state after construction *)

Init ==
    /\ pc = [p \in Procs |-> "idle"]
    /\ entry = [p \in Procs |-> "none"]
    /\ op = [p \in Procs |-> "none"]
    /\ path = [p \in Procs |-> "A"]
    /\ idx = [p \in Procs |-> 0]
    /\ ctx = [p \in Procs |-> NoCtx]
    /\ tin = [p \in Procs |-> NoTin]
    /\ pending = [p \in Procs |-> "none"]
    /\ result = [p \in Procs |-> "none"]
    /\ thrown = [p \in Procs |-> FALSE]
    /\ log = [p \in Procs |-> << >>]
    /\ lock = [d \in Paths |-> Free]
    /\ disk \in [Paths -> {Absent, Legacy}]
    /\ apiV3 \in BOOLEAN
    /\ configUnify \in BOOLEAN
    /\ currentStage = "none"
    /\ unit = "none"
    /\ inputs = << >>
    /\ folder = << >>
    /\ projectSetting = << >>
    /\ node = << >>
    /\ lastCall = << >>

\* an entry point that passes inputs.env on as the caller gave it
EntryInputsAsGiven(e, t0) == t0

\* what the entry point does to the inputs before it dispatches: localDebug sets
\* inputs.env to the name of the local environment
EntryInputs(e, t0) == IF e = "localDebug" THEN [t0 EXCEPT !.env = LocalEnv] ELSE t0

\* the call of entry point e on project path d with inputs t0 begins
Called(p, e, d, t0) ==
    /\ pc[p] = "idle"
    /\ entry' = [entry EXCEPT ![p] = e]
    /\ op' = [op EXCEPT ![p] = Dispatch(e)]
    /\ path' = [path EXCEPT ![p] = d]
    /\ pc' = [pc EXCEPT ![p] = "before"]
    /\ idx' = [idx EXCEPT ![p] = 1]
    /\ tin' = [tin EXCEPT ![p] = EntryInputs(e, t0)]
    /\ UNCHANGED <<ctx, pending, result, thrown, log, lock, disk, apiV3, unitVars,
                   configUnify, currentStage>>

\* an application name that matches ProjectNamePattern, and one that does not
FewNames == {OldName, <<"1">>}

\* the inputs of the calls of one caller
InputsFor(e) ==
    CASE e \in {"createProject", "init"} -> {[NoTin EXCEPT !.appName = n] : n \in FewNames}
      [] e = "localDebug" ->
            {[NoTin EXCEPT !.env = x, !.envGiven = x] : x \in {"none", DefaultEnv}}
      [] OTHER -> {NoTin}

\* One caller invokes a public method, any of them, when its last call is over.
Start(p) ==
    /\ p = 1
    /\ \E e \in Entries : \E t0 \in InputsFor(e) : Called(p, e, "A", t0)

\* the entry points whose runs are explored overlapping each other
ConcEntries == {"provisionResources", "deployArtifacts"}

\* A caller invokes a public method while the calls of other callers are in flight.
StartConcurrent(p) ==
    \E e \in ConcEntries, d \in Paths : Called(p, e, d, NoTin)

\* the entry points that create a project, copy an environment, write its state
FileEntries == {"createProject", "init", "createEnv", "provisionResources"}

\* every application name, every pair of environment names
AllInputsFor(e) ==
    CASE e \in {"createProject", "init"} ->
            {[NoTin EXCEPT !.appName = n] : n \in Names \cup {NoName}}
      [] e = "createEnv" ->
            {[NoTin EXCEPT !.targetEnv = te, !.sourceEnv = se] : te, se \in EnvNames}
      [] OTHER -> {NoTin}

\* a path at which no project was created or initialized since the start
Pristine(dk) == dk \in {Absent, Legacy, [Legacy EXCEPT !.legacy = FALSE]}

\* One caller works on the project at one path, with any inputs; it creates or
\* initializes a project there once.
StartFiles(p) ==
    /\ p = 1
    /\ \E e \in FileEntries : \E t0 \in AllInputsFor(e) :
            /\ e \in {"createProject", "init"} => Pristine(disk["A"])
            /\ Called(p, e, "A", t0)

-----------------------------------------------------------------------------
(* Before phases: the code of a middleware up to its call of next() *)

InBefore(p, mws) ==
    /\ pc[p] = "before"
    /\ idx[p] <= Len(Hooks(op[p]))
    /\ Cur(p) \in mws

\* the middleware called next(): the run goes on to the next one
Entered(p) ==
    /\ idx' = [idx EXCEPT ![p] = idx[p] + 1]
    /\ log' = [log EXCEPT ![p] = Append(log[p], Ev(p, "before", Cur(p), Undef, "none"))]
    /\ UNCHANGED <<pc, result>>

\* a middleware that records its failure and calls next() all the same
ShortCircuitAndGoOn(p, e) ==
    /\ result' = [result EXCEPT ![p] = e]
    /\ pc' = pc
    /\ idx' = [idx EXCEPT ![p] = idx[p] + 1]
    /\ log' = [log EXCEPT ![p] = Append(log[p], Ev(p, "fail", Cur(p), Undef, e))]

\* a failing middleware after which every middleware of the list runs its after phase
ShortCircuitThroughAll(p, e) ==
    /\ result' = [result EXCEPT ![p] = e]
    /\ pc' = [pc EXCEPT ![p] = "after"]
    /\ idx' = [idx EXCEPT ![p] = Len(Hooks(op[p]))]
    /\ log' = [log EXCEPT ![p] = Append(log[p], Ev(p, "fail", Cur(p), Undef, e))]

\* the middleware set ctx.result to err(e) and returned without calling next()
ShortCircuit(p, e) ==
    /\ result' = [result EXCEPT ![p] = e]
    /\ pc' = [pc EXCEPT ![p] = "after"]
    /\ idx' = [idx EXCEPT ![p] = idx[p] - 1]
    /\ log' = [log EXCEPT ![p] = Append(log[p], Ev(p, "fail", Cur(p), Undef, e))]

\* middleware whose before phase does nothing: the error handler and the writers
PassThrough ==
    {EH, PSW, LSW, EW2(FALSE), EW2(TRUE), EW3(FALSE), EW3(TRUE)}

BeforePassThrough(p) ==
    /\ InBefore(p, PassThrough)
    /\ Entered(p)
    /\ UNCHANGED <<entry, op, path, ctx, tin, pending, thrown, lock, disk, apiV3, unitVars,
                   configUnify, currentStage>>

\* acquire(projectPath): a handle, or a "locked" error when one is outstanding
BeforeConcurrentLocker(p) ==
    /\ InBefore(p, {CL})
    /\ IF lock[LockKey(path[p])] = Free
       THEN /\ lock' = [lock EXCEPT ![LockKey(path[p])] = p]
            /\ Entered(p)
       ELSE /\ ShortCircuit(p, "ConcurrentError")
            /\ UNCHANGED lock
    /\ UNCHANGED <<entry, op, path, ctx, tin, pending, thrown, disk, apiV3, unitVars,
                   configUnify, currentStage>>

\* a migrator that also drops the environment state documents it finds
migrateDroppingState(dk) == [dk EXCEPT !.legacy = FALSE, !.envState = {}]

\* the project directory after the migrator went over it: a legacy project is
\* transformed in place, a project of the current format is left as it is
migrate(dk) == IF dk.legacy THEN [dk EXCEPT !.legacy = FALSE] ELSE dk

\* a legacy project is upgraded in place, or the upgrade fails and the run aborts
BeforeProjectMigrator(p) ==
    /\ InBefore(p, {PM})
    /\ \/ /\ disk[path[p]].legacy
          /\ disk' = [disk EXCEPT ![path[p]] = migrate(@)]
          /\ idx' = [idx EXCEPT ![p] = idx[p] + 1]
          /\ log' = [log EXCEPT ![p] =
                        log[p] \o <<Ev(p, "write", "migrate", Undef, "none"),
                                    Ev(p, "before", PM, Undef, "none")>>]
          /\ UNCHANGED <<pc, result>>
       \/ /\ ~disk[path[p]].legacy
          /\ Entered(p)
          /\ disk' = [disk EXCEPT ![path[p]] = migrate(@)]
       \/ /\ disk[path[p]].legacy
          /\ ShortCircuit(p, "MigrationError")
          /\ UNCHANGED disk
    /\ UNCHANGED <<entry, op, path, ctx, tin, pending, thrown, lock, apiV3, unitVars,
                   configUnify, currentStage>>

\* what a loader puts into the context when it succeeds
Loaded(mw, c, dk) ==
    CASE mw = PSL -> {[c EXCEPT !.projectSettings = OnDisk, !.appName = dk.appName]}
      [] mw \in {EL2(FALSE), EL2(TRUE)} -> {[c EXCEPT !.envInfoV2 = OnDisk]}
      [] mw \in {EL3(FALSE), EL3(TRUE)} -> {[c EXCEPT !.envInfoV3 = OnDisk]}
      [] mw = LSL -> {[c EXCEPT !.localSettings = l] : l \in {Undef, OnDisk}}
      [] mw = SL2 -> {[c EXCEPT !.solutionV2 = "loaded"]}
      [] mw = SL3 -> {[c EXCEPT !.solutionV3 = "loaded"]}
      [] mw = CI -> {[c EXCEPT !.injected = TRUE, !.contextV2 = (c.projectSettings # Undef)]}
      [] OTHER -> {c}

LoadError(mw) ==
    CASE mw = PSL -> "ReadFileError"
      [] mw \in {EL2(FALSE), EL2(TRUE), EL3(FALSE), EL3(TRUE)} -> "ProjectEnvNotExistError"
      [] mw = LSL -> "ReadFileError"
      [] mw \in {SL2, SL3} -> "SolutionNotFound"
      [] OTHER -> "none"

Loaders == {PSL, LSL, SL2, SL3, EL2(FALSE), EL2(TRUE), EL3(FALSE), EL3(TRUE)}

\* a loader reads its document of the project into the context, or fails
BeforeLoader(p) ==
    /\ InBefore(p, Loaders)
    /\ \/ /\ disk[path[p]].exists
          /\ \E c \in Loaded(Cur(p), ctx[p], disk[path[p]]) : ctx' = [ctx EXCEPT ![p] = c]
          /\ Entered(p)
       \/ /\ ShortCircuit(p, LoadError(Cur(p)))
          /\ UNCHANGED ctx
    /\ UNCHANGED <<entry, op, path, tin, pending, thrown, lock, disk, apiV3, unitVars,
                   configUnify, currentStage>>

\* the question tree is resolved into inputs, or the user cancels a prompt
BeforeQuestionModel(p) ==
    /\ InBefore(p, {QM})
    /\ \/ Entered(p)
       \/ ShortCircuit(p, "UserCancelError")
    /\ UNCHANGED <<entry, op, path, ctx, tin, pending, thrown, lock, disk, apiV3, unitVars,
                   configUnify, currentStage>>

\* the shared context is built and the hook context is passed on to the target
BeforeContextInjector(p) ==
    /\ InBefore(p, {CI})
    /\ \E c \in Loaded(CI, ctx[p], disk[path[p]]) : ctx' = [ctx EXCEPT ![p] = c]
    /\ Entered(p)
    /\ UNCHANGED <<entry, op, path, tin, pending, thrown, lock, disk, apiV3, unitVars,
                   configUnify, currentStage>>

-----------------------------------------------------------------------------
(* The target operations: the bodies of the hooked methods *)

Ret(r, c) == [act |-> "return", res |-> r, call |-> "none", c |-> c, writes |-> << >>]
Call(m, c, w) == [act |-> "call", res |-> "none", call |-> m, c |-> c, writes |-> w]
Throw(r, c) == [act |-> "throw", res |-> r, call |-> "none", c |-> c, writes |-> << >>]

\* a project directory as fs.ensureDir(projectPath) makes it
NewProject == [Absent EXCEPT !.exists = TRUE]

provisionResourcesV2(c) ==
    IF ~c.injected \/ c.solutionV2 = "none" \/ ~c.contextV2 \/ c.envInfoV2 = Undef
    THEN Ret("ObjectIsUndefinedError", c)
    ELSE Call("solutionV2.provisionResources", c, << >>)

provisionResourcesV3(c, t) ==
    IF c.injected /\ c.solutionV3 # "none" /\ c.contextV2 /\ c.envInfoV3 # Undef
       /\ t.impl
    THEN Call("solutionV3.provisionResources", c, << >>)
    ELSE Ret("ok", c)

\* deployArtifactsV2 that does not look whether the project is a pure existing app
deployArtifactsV2DeployingExisting(c, t) ==
    IF ~c.injected \/ c.projectSettings = Undef THEN Ret("ObjectIsUndefinedError", c)
    ELSE IF c.solutionV2 = "none" \/ ~c.contextV2 \/ c.envInfoV2 = Undef
    THEN Ret("ObjectIsUndefinedError", c)
    ELSE IF t.impl THEN Call("solutionV2.deploy", c, << >>)
    ELSE Ret("ok", c)

deployArtifactsV2(c, t) ==
    IF ~c.injected \/ c.projectSettings = Undef THEN Ret("ObjectIsUndefinedError", c)
    ELSE IF t.pure THEN Ret("OperationNotSupportedForExistingAppError", c)
    ELSE IF c.solutionV2 = "none" \/ ~c.contextV2 \/ c.envInfoV2 = Undef
    THEN Ret("ObjectIsUndefinedError", c)
    ELSE IF t.impl THEN Call("solutionV2.deploy", c, << >>)
    ELSE Ret("ok", c)

deployArtifactsV3(c, t) ==
    IF c.injected /\ c.solutionV3 # "none" /\ c.contextV2 /\ c.envInfoV3 # Undef
       /\ t.impl
    THEN Call("solutionV3.deploy", c, << >>)
    ELSE Ret("ok", c)

localDebugV2(c, t) ==
    IF ~c.injected \/ c.projectSettings = Undef THEN Ret("ObjectIsUndefinedError", c)
    ELSE IF c.solutionV2 = "none" \/ ~c.contextV2 THEN Ret("ObjectIsUndefinedError", c)
    ELSE LET c1 == IF c.localSettings = Undef THEN [c EXCEPT !.localSettings = 0] ELSE c
         IN  IF t.impl
             THEN Call("solutionV2.provisionLocalResource", c1, << >>)
             ELSE Ret("ok", c1)

publishApplicationV2(c) ==
    IF ~c.injected \/ c.solutionV2 = "none" \/ ~c.contextV2 \/ c.envInfoV2 = Undef
    THEN Ret("ObjectIsUndefinedError", c)
    ELSE Call("solutionV2.publishApplication", c, << >>)

publishApplicationV3(c, t) ==
    IF c.injected /\ c.solutionV3 # "none" /\ c.contextV2 /\ c.envInfoV3 # Undef
       /\ t.impl
    THEN Call("solutionV3.publishApplication", c, << >>)
    ELSE Ret("ok", c)

\* executeUserTaskV2 that routes a function whatever its namespace
executeUserTaskV2AnyNamespace(c, t) ==
    IF ~c.injected \/ c.solutionV2 = "none" \/ c.envInfoV2 = Undef
    THEN Ret("ObjectIsUndefinedError", c)
    ELSE LET c1 == [c EXCEPT !.contextV2 = TRUE]
             c2 == IF c1.localSettings = Undef THEN [c1 EXCEPT !.localSettings = 0] ELSE c1
         IN  IF t.impl
             THEN Call("solutionV2.executeUserTask", c2, << >>)
             ELSE Ret("FunctionRouterError", c1)

executeUserTaskV2(c, t) ==
    IF ~t.nsOk THEN Ret("FunctionRouterError", c)
    ELSE IF ~c.injected \/ c.solutionV2 = "none" \/ c.envInfoV2 = Undef
    THEN Ret("ObjectIsUndefinedError", c)
    ELSE LET c1 == [c EXCEPT !.contextV2 = TRUE]
             c2 == IF c1.localSettings = Undef THEN [c1 EXCEPT !.localSettings = 0] ELSE c1
         IN  IF t.impl
             THEN Call("solutionV2.executeUserTask", c2, << >>)
             ELSE Ret("FunctionRouterError", c1)

executeUserTaskV3(c, t) ==
    IF ~t.nsOk THEN Ret("FunctionRouterError", c)
    ELSE IF ~c.injected \/ c.solutionV3 = "none" \/ c.envInfoV3 = Undef
    THEN Ret("ObjectIsUndefinedError", c)
    ELSE LET c1 == [c EXCEPT !.contextV2 = TRUE]
         IN  IF t.impl
             THEN Call("solutionV3.executeUserTask", c1, << >>)
             ELSE Ret("FunctionRouterError", c1)

getQuestions(c) ==
    IF ~c.injected THEN Ret("ObjectIsUndefinedError", c)
    ELSE Call("getQuestions", c, << >>)

getProjectConfig(c) ==
    IF ~c.injected THEN Ret("ObjectIsUndefinedError", c) ELSE Ret("ok", c)

getProjectConfigV3(c) ==
    IF ~c.injected \/ c.projectSettings = Undef THEN Ret("ObjectIsUndefinedError", c)
    ELSE Call("environmentManager.listAllEnvConfigs", c, << >>)

\* grantPermissionV2, checkPermissionV2, listCollaboratorV2: the optional method is
\* called through a non-null assertion
collaboratorV2(c, t, m) ==
    IF c.injected /\ t.impl THEN Call(m, c, << >>)
    ELSE Throw("TypeError", c)

\* grantPermissionV3, checkPermissionV3, listCollaboratorV3
collaboratorV3(c, m) ==
    IF c.injected /\ c.contextV2 /\ c.envInfoV3 # Undef THEN Call(m, c, << >>)
    ELSE Ret("ObjectIsUndefinedError", c)

getSelectedEnv(c) == Ret("ok", c)

encrypt(c) ==
    IF ~c.injected THEN Ret("ObjectIsUndefinedError", c)
    ELSE IF ~c.contextV2 THEN Ret("ObjectIsUndefinedError", c)
    ELSE Call("cryptoProvider", c, << >>)

\* fs.copy(source config, target config) works: the source exists and is not the
\* target, and no I/O error occurs
createEnvCopy(t, dk) ==
    /\ t.copyOk
    /\ dk.envConfig[t.sourceEnv] # NoFile
    /\ t.sourceEnv # t.targetEnv

\* createEnv that copies whatever askNewEnvironment gave
createEnvUnasked(c, t, dk) ==
    IF ~c.injected THEN Ret("ObjectIsUndefinedError", c)
    ELSE IF c.projectSettings = Undef THEN Ret("ok", c)
    ELSE IF ~createEnvCopy(t, dk) THEN Ret("CopyFileError", c)
    ELSE IF c.solutionV2 = "none" \/ ~c.contextV2
    THEN [Ret("ObjectIsUndefinedError", c) EXCEPT !.writes = <<"envConfigCopy">>]
    ELSE IF t.impl THEN Call("solutionV2.createEnv", c, <<"envConfigCopy">>)
    ELSE [Ret("ok", c) EXCEPT !.writes = <<"envConfigCopy">>]

createEnv(c, t, dk) ==
    IF ~c.injected THEN Ret("ObjectIsUndefinedError", c)
    ELSE IF c.projectSettings = Undef THEN Ret("ok", c)
    ELSE IF ~t.answered THEN Ret("UserCancelError", c)
    ELSE IF ~createEnvCopy(t, dk) THEN Ret("CopyFileError", c)
    ELSE IF c.solutionV2 = "none" \/ ~c.contextV2
    THEN [Ret("ObjectIsUndefinedError", c) EXCEPT !.writes = <<"envConfigCopy">>]
    ELSE IF t.impl THEN Call("solutionV2.createEnv", c, <<"envConfigCopy">>)
    ELSE [Ret("ok", c) EXCEPT !.writes = <<"envConfigCopy">>]

\* activateEnv that loads the solution context of inputs.env without looking the
\* name up in the list of remote environment configs
activateEnvWithoutLookup(c, t) ==
    IF ~t.nameOk THEN Ret("ObjectIsUndefinedError", c)
    ELSE IF c.projectSettings = Undef THEN Ret("ok", c)
    ELSE Call("loadSolutionContext", c, << >>)

\* inputs.env must be given; with settings in the context the body awaits
\* environmentManager.listRemoteEnvConfigs and goes on as Rest says
activateEnv(c, t) ==
    IF ~t.nameOk THEN Ret("ObjectIsUndefinedError", c)
    ELSE IF c.projectSettings = Undef THEN Ret("ok", c)
    ELSE Call("environmentManager.listRemoteEnvConfigs", c, << >>)

\* _init: the settings, the folder structure, the manifest, the environment configs
\* path.join(folder, undefined) throws
init(c, t) ==
    IF ~c.injected THEN Ret("ObjectIsUndefinedError", c)
    ELSE IF ~Validates(t.appName) THEN Ret("InvalidInputError", c)
    ELSE IF t.appName = NoName THEN Throw("TypeError", c)
    ELSE Call("appStudioV3.init",
              [c EXCEPT !.projectSettings = 0, !.contextV2 = TRUE, !.appName = t.appName],
              <<"projectDir", "basicFolderStructure">>)

\* createProjectV2 that takes the directory whether or not one is there
createProjectV2Overwriting(c, t, dk, unify) ==
    IF ~c.injected THEN Ret("ObjectIsUndefinedError", c)
    ELSE IF ~t.folderOk THEN Throw("ProjectFolderInvalidError", c)
    ELSE IF t.appName = NoName \/ ~Validates(t.appName) THEN Ret("InvalidInputError", c)
    ELSE Call("solutionV2.scaffoldSourceCode",
              [c EXCEPT !.projectSettings = 0, !.contextV2 = TRUE, !.solutionV2 = "loaded",
                        !.appName = t.appName],
              <<"projectDir", "basicFolderStructure", "envConfig.dev">>)

\* createProjectV2 that writes the local environment whatever the config-unify flag
createProjectV2AlwaysLocal(c, t, dk, unify) ==
    IF ~c.injected THEN Ret("ObjectIsUndefinedError", c)
    ELSE IF ~t.folderOk THEN Throw("ProjectFolderInvalidError", c)
    ELSE IF t.appName = NoName \/ ~Validates(t.appName) THEN Ret("InvalidInputError", c)
    ELSE IF dk.exists THEN Ret("ProjectFolderExistError", c)
    ELSE Call("solutionV2.scaffoldSourceCode",
              [c EXCEPT !.projectSettings = 0, !.contextV2 = TRUE, !.solutionV2 = "loaded",
                        !.appName = t.appName],
              <<"projectDir", "basicFolderStructure", "envConfig.dev", "envConfig.local">>)

\* createProjectV2 that writes the environment config before it makes the directories
createProjectV2ConfigFirst(c, t, dk, unify) ==
    IF ~c.injected THEN Ret("ObjectIsUndefinedError", c)
    ELSE IF ~t.folderOk THEN Throw("ProjectFolderInvalidError", c)
    ELSE IF t.appName = NoName \/ ~Validates(t.appName) THEN Ret("InvalidInputError", c)
    ELSE IF dk.exists THEN Ret("ProjectFolderExistError", c)
    ELSE IF t.existingApp
    THEN Call("appStudioV3.init", [c EXCEPT !.projectSettings = 0, !.appName = t.appName],
              <<"projectDir", "basicFolderStructure", "envConfig.dev">>)
    ELSE Call("solutionV2.scaffoldSourceCode",
              [c EXCEPT !.projectSettings = 0, !.contextV2 = TRUE, !.solutionV2 = "loaded",
                        !.appName = t.appName],
              <<"projectDir", "envConfig.dev", "basicFolderStructure">>
                  \o (IF unify THEN <<"envConfig.local">> ELSE << >>))

\* from new: the name is validated, the directory must not exist, then the folders,
\* the settings and the environment configs are made, the solution is looked up and
\* it scaffolds
createProjectV2(c, t, dk, unify) ==
    IF ~c.injected THEN Ret("ObjectIsUndefinedError", c)
    ELSE IF ~t.folderOk THEN Throw("ProjectFolderInvalidError", c)
    ELSE IF t.appName = NoName \/ ~Validates(t.appName) THEN Ret("InvalidInputError", c)
    ELSE IF dk.exists THEN Ret("ProjectFolderExistError", c)
    ELSE IF t.existingApp
    THEN Call("appStudioV3.init", [c EXCEPT !.projectSettings = 0, !.appName = t.appName],
              <<"projectDir", "basicFolderStructure", "envConfig.dev">>)
    ELSE LET made == <<"projectDir", "basicFolderStructure", "envConfig.dev">>
                         \o (IF unify THEN <<"envConfig.local">> ELSE << >>)
         IN  IF ~t.solutionOk
             THEN [Ret("LoadSolutionError",
                       [c EXCEPT !.projectSettings = 0, !.appName = t.appName])
                     EXCEPT !.writes = made]
             ELSE Call("solutionV2.scaffoldSourceCode",
                       [c EXCEPT !.projectSettings = 0, !.contextV2 = TRUE,
                                 !.solutionV2 = "loaded", !.appName = t.appName],
                       made)

\* the same checks, then _init
createProjectV3(c, t, dk) ==
    IF ~c.injected THEN Ret("ObjectIsUndefinedError", c)
    ELSE IF ~t.folderOk THEN Throw("ProjectFolderInvalidError", c)
    ELSE IF t.appName = NoName \/ ~Validates(t.appName) THEN Ret("InvalidInputError", c)
    ELSE IF dk.exists THEN Ret("ProjectFolderExistError", c)
    ELSE Call("appStudioV3.init",
              [c EXCEPT !.projectSettings = 0, !.contextV2 = TRUE, !.appName = t.appName],
              <<"projectDir", "basicFolderStructure">>)

Step1(ws, m) == [writes |-> ws, call |-> m]

\* _init after its first appStudioV3.init, up to its return, and then last, what
\* its caller goes on with
InitRest(t, last) ==
    IF t.existingApp
    THEN <<Step1(<<"envConfig.dev">>, "appStudioV3.init"),
           Step1(<< >>, "appStudioV3.addCapabilities"),
           Step1(<<"envConfig.local">> \o last.writes, last.call)>>
    ELSE <<Step1(<<"envConfig.dev", "envConfig.local">> \o last.writes, last.call)>>

\* What a method body does after its first call returned ok: the writes it makes and
\* the call it awaits next, or "none" when it returns.
Rest(o, t, unify) ==
    CASE o = "createProjectV2" /\ t.existingApp ->
            <<Step1(<< >>, "appStudioV3.addCapabilities"),
              Step1(IF unify THEN <<"envConfig.local">> ELSE << >>, "none")>>
      [] o = "createProjectV2" /\ ~t.existingApp ->
            <<Step1(<< >>, "solutionV2.generateResourceTemplate")>>
                \o (IF t.impl THEN <<Step1(<< >>, "solutionV2.createEnv")>> ELSE << >>)
      [] o = "init" -> InitRest(t, Step1(<< >>, "none"))
      [] o = "createProjectV3" ->
            InitRest(t, Step1(<<"projectSettings">>,
                              IF t.existingApp THEN "none" ELSE "addFeature"))
      [] o = "activateEnv" ->
            <<Step1(<< >>, "loadSolutionContext"), Step1(<< >>, "ui.showMessage")>>
      [] OTHER -> << >>

addFeature(c, t) ==
    IF c.injected /\ c.solutionV3 # "none" /\ c.contextV2 /\ t.impl
    THEN Call("solutionV3.addFeature", c, <<"basicFolderStructure">>)
    ELSE Ret("ok", c)

buildArtifacts(c) == Throw("TaskNotSupportError", c)

provisionTeamsAppForCLI(c, t) ==
    IF ~t.nameOk THEN Ret("InvalidInputError", c)
    ELSE Call("appStudioV3.registerTeamsApp", c, << >>)

TargetPlan(o, c, t, dk, unify) ==
    CASE o = "createProjectV2" -> createProjectV2(c, t, dk, unify)
      [] o = "createProjectV3" -> createProjectV3(c, t, dk)
      [] o = "provisionResourcesV2" -> provisionResourcesV2(c)
      [] o = "provisionResourcesV3" -> provisionResourcesV3(c, t)
      [] o = "deployArtifactsV2" -> deployArtifactsV2(c, t)
      [] o = "deployArtifactsV3" -> deployArtifactsV3(c, t)
      [] o = "localDebugV2" -> localDebugV2(c, t)
      [] o = "publishApplicationV2" -> publishApplicationV2(c)
      [] o = "publishApplicationV3" -> publishApplicationV3(c, t)
      [] o = "executeUserTaskV2" -> executeUserTaskV2(c, t)
      [] o = "executeUserTaskV3" -> executeUserTaskV3(c, t)
      [] o \in {"getQuestions", "getQuestionsForUserTask"} -> getQuestions(c)
      [] o = "getProjectConfig" -> getProjectConfig(c)
      [] o = "getProjectConfigV3" -> getProjectConfigV3(c)
      [] o = "grantPermissionV2" -> collaboratorV2(c, t, "solutionV2.grantPermission")
      [] o = "checkPermissionV2" -> collaboratorV2(c, t, "solutionV2.checkPermission")
      [] o = "listCollaboratorV2" -> collaboratorV2(c, t, "solutionV2.listCollaborator")
      [] o = "grantPermissionV3" -> collaboratorV3(c, "collaborator.grantPermission")
      [] o = "checkPermissionV3" -> collaboratorV3(c, "collaborator.checkPermission")
      [] o = "listCollaboratorV3" -> collaboratorV3(c, "collaborator.listCollaborator")
      [] o = "getSelectedEnv" -> getSelectedEnv(c)
      [] o \in {"encrypt", "decrypt"} -> encrypt(c)
      [] o = "createEnv" -> createEnv(c, t, dk)
      [] o = "activateEnv" -> activateEnv(c, t)
      [] o = "init" -> init(c, t)
      [] o = "addFeature" -> addFeature(c, t)
      [] o = "buildArtifacts" -> buildArtifacts(c)
      [] OTHER -> provisionTeamsAppForCLI(c, t)

\* the inputs a target looks at, by target
TinFor(o) ==
    CASE o = "createProjectV2" ->
            {NoTin, [NoTin EXCEPT !.folderOk = FALSE], [NoTin EXCEPT !.existingApp = TRUE],
             [NoTin EXCEPT !.impl = FALSE], [NoTin EXCEPT !.solutionOk = FALSE]}
      [] o = "createProjectV3" ->
            {NoTin, [NoTin EXCEPT !.folderOk = FALSE], [NoTin EXCEPT !.existingApp = TRUE]}
      [] o = "init" ->
            {[NoTin EXCEPT !.existingApp = b] : b \in BOOLEAN}
      [] o = "provisionTeamsAppForCLI" ->
            {[NoTin EXCEPT !.nameOk = b] : b \in BOOLEAN}
      [] o \in {"executeUserTaskV2", "executeUserTaskV3"} ->
            {NoTin, [NoTin EXCEPT !.nsOk = FALSE], [NoTin EXCEPT !.impl = FALSE]}
      [] o = "deployArtifactsV2" ->
            {NoTin, [NoTin EXCEPT !.pure = TRUE], [NoTin EXCEPT !.impl = FALSE]}
      [] o = "createEnv" ->
            {NoTin, [NoTin EXCEPT !.answered = FALSE], [NoTin EXCEPT !.copyOk = FALSE],
             [NoTin EXCEPT !.impl = FALSE]}
      [] o \in {"provisionResourcesV3", "deployArtifactsV3", "publishApplicationV3",
                "localDebugV2", "addFeature", "grantPermissionV2", "checkPermissionV2",
                "listCollaboratorV2"} ->
            {[NoTin EXCEPT !.impl = b] : b \in BOOLEAN}
      [] o = "activateEnv" ->
            {[NoTin EXCEPT !.nameOk = b] : b \in BOOLEAN}
      [] OTHER -> {NoTin}

-----------------------------------------------------------------------------
(* Running the target *)

SolutionCalls ==
    {"solutionV2.provisionResources", "solutionV3.provisionResources", "solutionV2.deploy",
     "solutionV3.deploy", "solutionV2.provisionLocalResource", "solutionV2.publishApplication",
     "solutionV3.publishApplication", "solutionV2.executeUserTask", "solutionV3.executeUserTask",
     "solutionV2.createEnv", "solutionV2.scaffoldSourceCode",
     "solutionV2.generateResourceTemplate", "solutionV3.addFeature",
     "solutionV2.grantPermission", "solutionV2.checkPermission", "solutionV2.listCollaborator"}

WriteEvents(p, ws) == [i \in 1..Len(ws) |-> Ev(p, "write", ws[i], Undef, "none")]

\* createEnvWithName(targetEnvName, projectSettings, inputs): the configuration
\* document that is written for an environment of the application n
createEnvWithName(e, n) ==
    newEnvConfigData(IF e = LocalEnv THEN getLocalAppName(n) ELSE n)

\* writes under which a copied environment takes the state of its source along
Write1CopyingState(dk, w, t) ==
    CASE w = "projectDir" -> IF dk.exists THEN dk ELSE NewProject
      [] w = "envConfig.dev" ->
            [dk EXCEPT !.envConfig[DefaultEnv] = createEnvWithName(DefaultEnv, t.appName)]
      [] w = "envConfig.local" ->
            [dk EXCEPT !.envConfig[LocalEnv] = createEnvWithName(LocalEnv, t.appName)]
      [] w = "envConfigCopy" ->
            [dk EXCEPT !.envConfig[t.targetEnv] = dk.envConfig[t.sourceEnv],
                       !.envState = IF t.sourceEnv \in @ THEN @ \cup {t.targetEnv} ELSE @]
      [] w = "projectSettings" -> [dk EXCEPT !.appName = t.appName]
      [] OTHER -> dk

\* writes under which fs.ensureDir(projectPath) leaves no directory behind
Write1NoDirectory(dk, w, t) ==
    CASE w = "projectDir" -> dk
      [] w = "envConfig.dev" ->
            [dk EXCEPT !.envConfig[DefaultEnv] = createEnvWithName(DefaultEnv, t.appName)]
      [] w = "envConfig.local" ->
            [dk EXCEPT !.envConfig[LocalEnv] = createEnvWithName(LocalEnv, t.appName)]
      [] w = "envConfigCopy" ->
            [dk EXCEPT !.envConfig[t.targetEnv] = dk.envConfig[t.sourceEnv]]
      [] w = "projectSettings" -> [dk EXCEPT !.appName = t.appName]
      [] OTHER -> dk

\* the directory after one write of a target that was called with the inputs of t
Write1(dk, w, t) ==
    CASE w = "projectDir" -> IF dk.exists THEN dk ELSE NewProject
      [] w = "envConfig.dev" ->
            [dk EXCEPT !.envConfig[DefaultEnv] = createEnvWithName(DefaultEnv, t.appName)]
      [] w = "envConfig.local" ->
            [dk EXCEPT !.envConfig[LocalEnv] = createEnvWithName(LocalEnv, t.appName)]
      [] w = "envConfigCopy" ->
            [dk EXCEPT !.envConfig[t.targetEnv] = dk.envConfig[t.sourceEnv]]
      [] w = "projectSettings" -> [dk EXCEPT !.appName = t.appName]
      [] OTHER -> dk

\* the directory after the writes ws of a target, made in order
RECURSIVE Written(_, _, _)
Written(dk, ws, t) ==
    IF ws = << >> THEN dk ELSE Written(Write1(dk, Head(ws), t), Tail(ws), t)

\* the stage that the body of a method hands to setCurrentStage, "none" when the
\* body has no such call
StageOf(o) ==
    CASE o \in {"createProjectV2", "createProjectV3"} -> "create"
      [] o \in {"provisionResourcesV2", "provisionResourcesV3"} -> "provision"
      [] o \in {"deployArtifactsV2", "deployArtifactsV3"} -> "deploy"
      [] o = "localDebugV2" -> "debug"
      [] o \in {"publishApplicationV2", "publishApplicationV3"} -> "publish"
      [] o \in {"executeUserTaskV2", "executeUserTaskV3"} -> "userTask"
      [] o \in {"getQuestions", "getQuestionsForUserTask"} -> "getQuestions"
      [] o \in {"getProjectConfig", "getProjectConfigV3"} -> "getProjectConfig"
      [] o \in {"grantPermissionV2", "grantPermissionV3"} -> "grantPermission"
      [] o \in {"checkPermissionV2", "checkPermissionV3"} -> "checkPermission"
      [] o \in {"listCollaboratorV2", "listCollaboratorV3"} -> "listCollaborator"
      [] OTHER -> "none"

\* setCurrentStage(stage) at the start of the body of o, called with context c;
\* createProject returns before it when it was handed no context
setCurrentStage(o, c, cur) ==
    IF StageOf(o) = "none" \/ (StageOf(o) = "create" /\ ~c.injected) THEN cur ELSE StageOf(o)

\* The method body of run p, called with the inputs of t, runs up to its first call
\* of a collaborator or to its return; seen is the project directory as the body
\* found it, first the events that precede its writes.
BodyRuns(p, t, seen, first) ==
    LET pl == TargetPlan(op[p], ctx[p], t, seen, configUnify)
        evs == first \o WriteEvents(p, pl.writes)
    IN  /\ tin' = [tin EXCEPT ![p] = t]
        /\ ctx' = [ctx EXCEPT ![p] = pl.c]
        /\ disk' = [disk EXCEPT ![path[p]] = Written(@, pl.writes, t)]
        /\ IF pl.act = "call"
           THEN /\ pc' = [pc EXCEPT ![p] = "target"]
                /\ pending' = [pending EXCEPT ![p] = pl.call]
                /\ log' = [log EXCEPT ![p] = log[p] \o evs]
                /\ UNCHANGED <<idx, result, thrown>>
           ELSE /\ pc' = [pc EXCEPT ![p] = "after"]
                /\ idx' = [idx EXCEPT ![p] = Len(Hooks(op[p]))]
                /\ result' = [result EXCEPT ![p] =
                                IF pl.act = "throw" THEN "none" ELSE pl.res]
                /\ thrown' = [thrown EXCEPT ![p] = (pl.act = "throw")]
                /\ log' = [log EXCEPT ![p] =
                             log[p] \o evs \o
                             <<Ev(p, IF pl.act = "throw" THEN "throw" ELSE "return",
                                  op[p], Undef, pl.res)>>]
                /\ pending' = [pending EXCEPT ![p] = "none"]

\* With one caller on a path nothing happens between the awaits of the body: it
\* finds the directory as it is when the body begins.
TargetBegin(p) ==
    /\ pc[p] = "before"
    /\ idx[p] = Len(Hooks(op[p])) + 1
    /\ \E t1 \in TinFor(op[p]) :
          BodyRuns(p, WithInputs(t1, tin[p]), disk[path[p]],
                   <<Ev(p, "target", op[p], Undef, "none")>>)
    /\ currentStage' = setCurrentStage(op[p], ctx[p], currentStage)
    /\ UNCHANGED <<entry, op, path, lock, apiV3, unitVars, configUnify>>

\* what await fs.pathExists(projectPath) can resolve to
FolderAnswers == {"folderExist", "folderAbsent"}

\* createProject with another caller about: the body runs up to
\* await fs.pathExists(projectPath), which reads the directory; a body that fails
\* before that (no ctx, root folder, name) returns as above
CreateAsksPathExists(p) ==
    /\ pc[p] = "before"
    /\ idx[p] = Len(Hooks(op[p])) + 1
    /\ op[p] \in {"createProjectV2", "createProjectV3"}
    /\ \E t1 \in TinFor(op[p]) :
          LET t == WithInputs(t1, tin[p])
              first == <<Ev(p, "target", op[p], Undef, "none")>>
          IN  IF TargetPlan(op[p], ctx[p], t, Absent, configUnify).act = "call"
              THEN /\ tin' = [tin EXCEPT ![p] = t]
                   /\ pc' = [pc EXCEPT ![p] = "target"]
                   /\ pending' = [pending EXCEPT ![p] =
                                    IF disk[path[p]].exists THEN "folderExist"
                                    ELSE "folderAbsent"]
                   /\ log' = [log EXCEPT ![p] = log[p] \o first]
                   /\ UNCHANGED <<ctx, disk, idx, result, thrown>>
              ELSE BodyRuns(p, t, disk[path[p]], first)
    /\ currentStage' = setCurrentStage(op[p], ctx[p], currentStage)
    /\ UNCHANGED <<entry, op, path, lock, apiV3, unitVars, configUnify>>

\* the body goes on after the await with the answer it got: it returns
\* ProjectFolderExistError, or makes the directories with fs.ensureDir and goes on
\* to its first collaborator
CreateGoesOn(p) ==
    /\ pc[p] = "target"
    /\ pending[p] \in FolderAnswers
    /\ BodyRuns(p, tin[p], [disk[path[p]] EXCEPT !.exists = (pending[p] = "folderExist")],
                << >>)
    /\ UNCHANGED <<entry, op, path, lock, apiV3, unitVars, configUnify, currentStage>>

\* how a collaborator call can end
Outcomes(m) ==
    CASE m = "solutionV2.provisionLocalResource" -> {"success", "partialSuccess", "failure", "throw"}
      [] m = "solutionV2.executeUserTask" -> {"ok", "okAddCapability", "err", "throw"}
      [] m = "addFeature" -> {"ok", "err"}
      [] m = "environmentManager.listRemoteEnvConfigs" ->
            {"envListed", "envNotListed", "err", "throw"}
      [] m = "loadSolutionContext" -> {"loaded", "notLoaded", "throw"}
      [] m = "ui.showMessage" -> {"ok"}
      [] OTHER -> {"ok", "err", "throw"}

\* the result the method body returns for an outcome of its call
ResultOf(out) ==
    CASE out \in {"ok", "okAddCapability", "success", "envListed", "loaded", "notLoaded"} -> "ok"
      [] out \in {"err", "partialSuccess", "failure"} -> "PluginError"
      [] out = "envNotListed" -> "NonExistEnvNameError"
      [] OTHER -> "none"

\* a solution works on the shared context and the environment info it was handed
Mutated(c, v) ==
    [c EXCEPT !.projectSettings = IF @ = Undef THEN @ ELSE v,
              !.envInfoV2 = IF @ = Undef THEN @ ELSE v,
              !.envInfoV3 = IF @ = Undef THEN @ ELSE v]

\* a method body that keeps the local settings of a call only when it succeeded
AfterCallSuccessOnly(m, out, c, v) ==
    LET c1 == IF m \in SolutionCalls THEN Mutated(c, v) ELSE c
    IN  IF m = "solutionV2.provisionLocalResource" /\ out = "success"
        THEN [c1 EXCEPT !.localSettings = v]
        ELSE c1

\* a method body that takes the local settings of a call however it ended
AfterCallAlways(m, out, c, v) ==
    LET c1 == IF m \in SolutionCalls THEN Mutated(c, v) ELSE c
    IN  IF m = "solutionV2.provisionLocalResource" /\ out # "throw"
        THEN [c1 EXCEPT !.localSettings = v]
        ELSE c1

\* what the method body does with the context once its call has ended
AfterCall(m, out, c, v) ==
    LET c1 == IF m \in SolutionCalls THEN Mutated(c, v) ELSE c
    IN  IF m = "solutionV2.provisionLocalResource" /\ out \in {"success", "partialSuccess"}
        THEN [c1 EXCEPT !.localSettings = v]
        ELSE IF m = "loadSolutionContext" /\ out = "loaded"
        THEN [c1 EXCEPT !.envName = OnDisk]
        ELSE c1

\* what the method body writes to the project directory once its call has ended
WritesAfterCall(m, out) ==
    CASE m = "solutionV2.executeUserTask" /\ out = "okAddCapability" -> <<"basicFolderStructure">>
      [] OTHER -> << >>

\* The awaited call ends and the method body runs to its next call, or to its
\* return.  createProjectV3 calls this.addFeature, a pipeline that takes the lock of
\* the project path and releases it when it is over.
TargetReturn(p) ==
    /\ pc[p] = "target"
    /\ \E out \in Outcomes(pending[p]),
          v \in IF pending[p] \in SolutionCalls THEN Vals ELSE {0} :
        LET rest == Rest(op[p], tin[p], configUnify)
            j == Len(Events(p, "call")) + 1
            step == IF ResultOf(out) = "ok" /\ j <= Len(rest)
                    THEN rest[j] ELSE Step1(<< >>, "none")
            ws == WritesAfterCall(pending[p], out) \o step.writes
            released == IF pending[p] = "addFeature"
                        THEN [lock EXCEPT ![LockKey(path[p])] = Free] ELSE lock
            nestedLocked == step.call = "addFeature" /\ released[LockKey(path[p])] # Free
            res == IF nestedLocked THEN "ConcurrentError" ELSE ResultOf(out)
            evs == <<Ev(p, "call", pending[p], v, out)>> \o WriteEvents(p, ws)
        IN  /\ ctx' = [ctx EXCEPT ![p] = AfterCall(pending[p], out, ctx[p], v)]
            /\ disk' = [disk EXCEPT ![path[p]] = Written(@, ws, tin[p])]
            /\ IF step.call # "none" /\ ~nestedLocked
               THEN /\ pending' = [pending EXCEPT ![p] = step.call]
                    /\ log' = [log EXCEPT ![p] = log[p] \o evs]
                    /\ lock' = IF step.call = "addFeature"
                               THEN [released EXCEPT ![LockKey(path[p])] = p]
                               ELSE released
                    /\ UNCHANGED <<pc, idx, result, thrown>>
               ELSE /\ result' = [result EXCEPT ![p] = res]
                    /\ thrown' = [thrown EXCEPT ![p] = (out = "throw")]
                    /\ log' = [log EXCEPT ![p] =
                                 log[p] \o evs
                                        \o <<Ev(p, IF out = "throw" THEN "throw" ELSE "return",
                                                op[p], Undef, res)>>]
                    /\ lock' = released
                    /\ pc' = [pc EXCEPT ![p] = "after"]
                    /\ idx' = [idx EXCEPT ![p] = Len(Hooks(op[p]))]
                    /\ pending' = [pending EXCEPT ![p] = "none"]
    /\ UNCHANGED <<entry, op, path, tin, apiV3, unitVars, configUnify, currentStage>>

-----------------------------------------------------------------------------
(* After phases: the code of a middleware after its call of next() *)

InAfter(p, mws) ==
    /\ pc[p] = "after"
    /\ idx[p] >= 1
    /\ Cur(p) \in mws

Left(p) ==
    /\ idx' = [idx EXCEPT ![p] = idx[p] - 1]
    /\ UNCHANGED pc

\* a locker that releases only when no exception passes through it
AfterConcurrentLockerUnlessThrown(p) ==
    /\ InAfter(p, {CL})
    /\ lock' = [lock EXCEPT ![LockKey(path[p])] = IF @ = p /\ ~thrown[p] THEN Free ELSE @]
    /\ log' = [log EXCEPT ![p] = Append(log[p], Ev(p, "after", CL, Undef, "none"))]
    /\ Left(p)
    /\ UNCHANGED <<entry, op, path, ctx, tin, pending, result, thrown, disk, apiV3, unitVars,
                   configUnify, currentStage>>

\* a release that frees the lock whoever holds it
releaseAnyHolder(lk, h) == Free

\* release(handle): the lock is freed when the handle is the one that holds it
release(lk, h) == IF lk = h THEN Free ELSE lk

AfterConcurrentLocker(p) ==
    /\ InAfter(p, {CL})
    /\ lock' = [lock EXCEPT ![LockKey(path[p])] = release(@, p)]
    /\ log' = [log EXCEPT ![p] = Append(log[p], Ev(p, "after", CL, Undef, "none"))]
    /\ Left(p)
    /\ UNCHANGED <<entry, op, path, ctx, tin, pending, result, thrown, disk, apiV3, unitVars,
                   configUnify, currentStage>>

Writers == {PSW, LSW, EW2(FALSE), EW3(FALSE)}

\* a writer that persists its document as the loader read it
ToWriteAsLoaded(mw, c) ==
    CASE mw = PSW -> IF c.projectSettings = Undef THEN Undef ELSE OnDisk
      [] mw = EW2(FALSE) -> IF c.envInfoV2 = Undef THEN Undef ELSE OnDisk
      [] mw = EW3(FALSE) -> IF c.envInfoV3 = Undef THEN Undef ELSE OnDisk
      [] mw = LSW -> IF c.localSettings = Undef THEN Undef ELSE OnDisk
      [] OTHER -> Undef

\* the document a writer persists, Undef when the context holds none
ToWrite(mw, c) ==
    CASE mw = PSW -> c.projectSettings
      [] mw = EW2(FALSE) -> c.envInfoV2
      [] mw = EW3(FALSE) -> c.envInfoV3
      [] mw = LSW -> c.localSettings
      [] OTHER -> Undef

\* the directory after writer mw persisted its document of the context c: the
\* settings document with its appName, the state document of the environment
Persisted(dk, mw, c) ==
    CASE mw = PSW -> [dk EXCEPT !.appName = c.appName]
      [] mw \in {EW2(FALSE), EW3(FALSE)} -> [dk EXCEPT !.envState = @ \cup {DefaultEnv}]
      [] OTHER -> dk

\* a writer persists its document of the context as it is now
AfterWriter(p) ==
    /\ InAfter(p, Writers)
    /\ LET v == ToWrite(Cur(p), ctx[p])
       IN  IF v # Undef /\ disk[path[p]].exists
           THEN /\ log' = [log EXCEPT ![p] =
                             log[p] \o <<Ev(p, "write", Cur(p), v, "none"),
                                         Ev(p, "after", Cur(p), Undef, "none")>>]
                /\ disk' = [disk EXCEPT ![path[p]] = Persisted(@, Cur(p), ctx[p])]
           ELSE /\ log' = [log EXCEPT ![p] =
                             Append(log[p], Ev(p, "after", Cur(p), Undef, "none"))]
                /\ UNCHANGED disk
    /\ Left(p)
    /\ UNCHANGED <<entry, op, path, ctx, tin, pending, result, thrown, lock, apiV3, unitVars,
                   configUnify, currentStage>>

\* any fault that reaches the error handler becomes a structured error result
AfterErrorHandler(p) ==
    /\ InAfter(p, {EH})
    /\ result' = [result EXCEPT ![p] = IF thrown[p] THEN "SystemError" ELSE @]
    /\ thrown' = [thrown EXCEPT ![p] = FALSE]
    /\ log' = [log EXCEPT ![p] = Append(log[p], Ev(p, "after", EH, Undef, "none"))]
    /\ Left(p)
    /\ UNCHANGED <<entry, op, path, ctx, tin, pending, lock, disk, apiV3, unitVars,
                   configUnify, currentStage>>

\* the middleware with code after next()
Effectful == Writers \cup {CL, EH}

\* the nearest middleware at or below position i with code after next(), or 0
RECURSIVE NextEffectful(_, _)
NextEffectful(h, i) ==
    IF i = 0 \/ h[i] \in Effectful THEN i ELSE NextEffectful(h, i - 1)

\* The other middleware have no code after next(): control passes through them.
AfterOther(p) ==
    /\ pc[p] = "after"
    /\ idx[p] >= 1
    /\ Cur(p) \notin Effectful
    /\ LET h == Hooks(op[p])
           j == NextEffectful(h, idx[p])
       IN  /\ log' = [log EXCEPT ![p] =
                        log[p] \o [i \in 1..(idx[p] - j) |->
                                     Ev(p, "after", h[idx[p] - i + 1], Undef, "none")]]
           /\ idx' = [idx EXCEPT ![p] = j]
    /\ UNCHANGED pc
    /\ UNCHANGED <<entry, op, path, ctx, tin, pending, result, thrown, lock, disk, apiV3,
                   unitVars, configUnify, currentStage>>

\* The call of the public method ends: its promise resolves with the Result, or
\* rejects when a fault is still propagating.
Return(p) ==
    /\ pc[p] = "after"
    /\ idx[p] = 0
    /\ pc' = [pc EXCEPT ![p] = IF thrown[p] THEN "escaped" ELSE "done"]
    /\ UNCHANGED <<entry, op, path, idx, ctx, tin, pending, result, thrown, log, lock, disk,
                   apiV3, unitVars, configUnify, currentStage>>

\* The hook context of the run is discarded.
Finish(p) ==
    /\ pc[p] \in {"done", "escaped"}
    /\ pc' = [pc EXCEPT ![p] = "idle"]
    /\ entry' = [entry EXCEPT ![p] = "none"]
    /\ op' = [op EXCEPT ![p] = "none"]
    /\ path' = [path EXCEPT ![p] = "A"]
    /\ idx' = [idx EXCEPT ![p] = 0]
    /\ ctx' = [ctx EXCEPT ![p] = NoCtx]
    /\ tin' = [tin EXCEPT ![p] = NoTin]
    /\ result' = [result EXCEPT ![p] = "none"]
    /\ thrown' = [thrown EXCEPT ![p] = FALSE]
    /\ log' = [log EXCEPT ![p] = << >>]
    /\ UNCHANGED <<pending, lock, disk, apiV3, unitVars, configUnify, currentStage>>

Step(p) ==
        \/ BeforePassThrough(p)
        \/ BeforeConcurrentLocker(p)
        \/ BeforeProjectMigrator(p)
        \/ BeforeLoader(p)
        \/ BeforeQuestionModel(p)
        \/ BeforeContextInjector(p)
        \/ TargetBegin(p)
        \/ TargetReturn(p)
        \/ AfterConcurrentLocker(p)
        \/ AfterWriter(p)
        \/ AfterErrorHandler(p)
        \/ AfterOther(p)
        \/ Return(p)
        \/ Finish(p)

\* one caller at a time, every entry point
Next == \E p \in Procs : Start(p) \/ Step(p)

Spec == Init /\ [][Next]_vars

\* two callers at once
NextConc == \E p \in Procs : StartConcurrent(p) \/ Step(p)

\* the config-unify flag does not enter the pipelines of ConcEntries
InitConc == Init /\ ~configUnify

SpecConc == InitConc /\ [][NextConc]_vars

\* two callers create a project from the same folder and application name
StartCreate(p) == Called(p, "createProject", "A", NoTin)

NextCreate ==
    \E p \in Procs :
        \/ StartCreate(p)
        \/ BeforePassThrough(p)
        \/ BeforeQuestionModel(p)
        \/ BeforeContextInjector(p)
        \/ CreateAsksPathExists(p)
        \/ CreateGoesOn(p)
        \/ (pending[p] \notin FolderAnswers /\ TargetReturn(p))
        \/ AfterWriter(p)
        \/ AfterErrorHandler(p)
        \/ AfterOther(p)
        \/ Return(p)
        \/ Finish(p)

SpecCreate == Init /\ [][NextCreate]_vars

\* A caller creates a project; when the call failed after it had made the project
\* directory, the caller tries again with the same folder and application name.
StartRetry(p) ==
    \/ /\ p = 1
       /\ \E t0 \in InputsFor("createProject") : Called(p, "createProject", "A", t0)
    \/ /\ p = 2
       /\ pc[1] \in {"done", "escaped"}
       /\ entry[1] = "createProject"
       /\ result[1] # "ok"
       /\ \E i \in 1..Len(log[1]) : log[1][i].kind = "write" /\ log[1][i].what = "projectDir"
       /\ Called(p, "createProject", path[1], [NoTin EXCEPT !.appName = tin[1].appName])

NextRetry ==
    \E p \in Procs :
        \/ StartRetry(p)
        \/ BeforePassThrough(p)
        \/ BeforeQuestionModel(p)
        \/ BeforeContextInjector(p)
        \/ TargetBegin(p)
        \/ TargetReturn(p)
        \/ AfterWriter(p)
        \/ AfterErrorHandler(p)
        \/ AfterOther(p)
        \/ Return(p)
        \/ Finish(p)

SpecRetry == Init /\ [][NextRetry]_vars

\* one caller, one project, every input
NextFiles == \E p \in Procs : StartFiles(p) \/ Step(p)

SpecFiles == Init /\ [][NextFiles]_vars

-----------------------------------------------------------------------------
(* Reading the log of a run *)

What(es) == [i \in 1..Len(es) |-> es[i].what]

Reverse(s) == [i \in 1..Len(s) |-> s[Len(s) + 1 - i]]

Has(p, k, w) == \E i \in 1..Len(log[p]) : log[p][i].kind = k /\ log[p][i].what = w

Count(p, k, w) ==
    Cardinality({i \in 1..Len(log[p]) : log[p][i].kind = k /\ log[p][i].what = w})

\* every k1 event of the run comes before every k2 event
Precede(p, k1, w1, k2, w2) ==
    \A i, j \in 1..Len(log[p]) :
        (log[p][i].kind = k1 /\ log[p][i].what = w1 /\ log[p][j].kind = k2
         /\ log[p][j].what = w2) => i < j

InFlight(p) == pc[p] \in {"before", "target", "after"}

Over(p) == pc[p] \in {"done", "escaped"}

\* the run is between the before phase and the after phase of the locker
InsideLock(p) == InFlight(p) /\ Has(p, "before", CL) /\ ~Has(p, "after", CL)

\* the methods whose decorator lists ConcurrentLockerMW
LockAcquiring ==
    {"provisionResourcesV2", "provisionResourcesV3", "deployArtifactsV2", "deployArtifactsV3",
     "localDebugV2", "publishApplicationV2", "publishApplicationV3", "executeUserTaskV2",
     "executeUserTaskV3", "getQuestions", "getQuestionsForUserTask", "getProjectConfig",
     "getProjectConfigV3", "grantPermissionV2", "grantPermissionV3", "checkPermissionV2",
     "checkPermissionV3", "listCollaboratorV2", "listCollaboratorV3", "getSelectedEnv",
     "encrypt", "decrypt", "createEnv", "activateEnv", "addFeature"}

\* the methods with the standard mutating pipeline
StandardMutating ==
    {"provisionResourcesV2", "provisionResourcesV3", "deployArtifactsV2", "deployArtifactsV3",
     "publishApplicationV2"}

\* the writer of the environment state in the pipeline of a method
EnvWriterOf(o) ==
    IF o \in {"provisionResourcesV3", "deployArtifactsV3"} THEN EW3(FALSE) ELSE EW2(FALSE)

\* the run went through every before phase and its target returned ok
Clean(p) ==
    /\ pc[p] = "done"
    /\ result[p] = "ok"
    /\ Events(p, "fail") = << >>
    /\ Events(p, "throw") = << >>

-----------------------------------------------------------------------------
(* Concurrency lock *)

C1_Exclusion ==
    \A p \in Procs :
        \* a run past the locker holds the lock of its path
        /\ InsideLock(p) => lock[LockKey(path[p])] = p
        \* the target of a lock-acquiring method runs under the lock only
        /\ op[p] \in LockAcquiring =>
                \A i \in 1..Len(log[p]) : log[p][i].kind = "target" => log[p][i].held
        \* a run the locker turned away returns the lock error and never ran its target
        /\ Has(p, "fail", CL) =>
                /\ result[p] = "ConcurrentError"
                /\ Events(p, "target") = << >>
        \* the targets of two runs on one path never overlap
        /\ \A q \in Procs \ {p} :
                (path[p] = path[q] /\ op[p] \in LockAcquiring /\ op[q] \in LockAcquiring)
                    => ~(pc[p] = "target" /\ pc[q] = "target")

\* a run reaching the locker while another run holds the lock of its path fails there
C1_FailFast ==
    \A q \in Procs :
        (InBefore(q, {CL}) /\ lock[LockKey(path[q])] # Free /\ idx'[q] # idx[q])
            => (result'[q] = "ConcurrentError" /\ pc'[q] = "after")

\* C1: at most one pipeline holds the lock of a project path at a time; a second
\* lock-acquiring operation on the same path while the first is in flight fails at
\* the locker with the lock error instead of waiting, and its target never runs.
C1_LockExcludes == [](C1_Exclusion) /\ [][C1_FailFast]_vars

\* a run was turned away while another run on the same path was in its target
C1_Witness ==
    \E p, q \in Procs :
        /\ p # q /\ path[p] = path[q]
        /\ op[p] = "provisionResourcesV2" /\ op[q] = "provisionResourcesV2"
        /\ InsideLock(p) /\ pc[p] = "target"
        /\ Has(q, "fail", CL) /\ result[q] = "ConcurrentError" /\ pc[q] = "done"

C2_Released ==
    \A p \in Procs :
        \* a run that is over holds no lock, however it ended
        /\ ~InFlight(p) => \A d \in Paths : lock[d] # p
        \* a run reaching the locker with no other run in flight on its path finds it free
        /\ (InBefore(p, {CL}) /\ \A q \in Procs \ {p} : ~InFlight(q) \/ path[q] # path[p])
                => lock[LockKey(path[p])] = Free

\* a run reaching the locker with no other run in flight on its path acquires the lock
C2_Acquires ==
    \A p \in Procs :
        (/\ InBefore(p, {CL})
         /\ \A q \in Procs \ {p} : ~InFlight(q) \/ path[q] # path[p]
         /\ idx'[p] # idx[p])
            => (lock'[LockKey(path[p])] = p /\ pc'[p] = "before")

\* C2: every pipeline that acquired the lock has released it when the pipeline is
\* over, whether the run succeeded, returned a failure or threw; an operation that
\* reaches the locker on the same path after that acquires the lock.
C2_LockReleased == [](C2_Released) /\ [][C2_Acquires]_vars

\* a run whose target threw under the lock is over, and another run on the same path
\* is past the locker
C2_Witness ==
    \E p, q \in Procs :
        /\ p # q /\ path[p] = path[q]
        /\ pc[p] = "done" /\ Has(p, "before", CL) /\ Events(p, "throw") # << >>
        /\ result[p] = "SystemError"
        /\ InsideLock(q) /\ lock[LockKey(path[q])] = q

-----------------------------------------------------------------------------
(* Ordering of a run *)

\* the phases of a run without failure, the after phases in the order given
PhasesOf(p, afters) ==
    /\ What(Events(p, "before")) = Hooks(op[p])
    /\ Len(Events(p, "target")) = 1
    /\ What(Events(p, "after")) = afters
    /\ \A m \in {Hooks(op[p])[i] : i \in 1..Len(Hooks(op[p]))} :
            /\ Precede(p, "before", m, "target", op[p])
            /\ Precede(p, "target", op[p], "after", m)

FailedAt(p) ==
    IF \E i \in 1..Len(log[p]) : log[p][i].kind = "fail"
    THEN CHOOSE i \in 1..Len(log[p]) : log[p][i].kind = "fail"
    ELSE 0

\* the target returned a failure
TargetFailed(p) ==
    \E i \in 1..Len(log[p]) : log[p][i].kind = "return" /\ log[p][i].res # "ok"

\* C4: when the before phase of a middleware fails, no later-listed middleware is
\* entered and the target does not run; when a middleware or the target fails, the
\* after phases of the middleware already entered run in reverse order of entry, and
\* the run returns that failure.
C4_FailureShortCircuits ==
    \A p \in Procs :
        /\ FailedAt(p) # 0 =>
            LET k == FailedAt(p)
                n == Len(Events(p, "before"))
            IN  /\ Len(Events(p, "fail")) = 1
                \* the failing middleware is the one listed after those entered
                /\ log[p][k].what = Hooks(op[p])[n + 1]
                /\ What(Events(p, "before")) = SubSeq(Hooks(op[p]), 1, n)
                /\ \A i \in 1..Len(log[p]) : log[p][i].kind = "before" => i < k
                /\ Events(p, "target") = << >>
                /\ Over(p) => result[p] = log[p][k].res
        /\ TargetFailed(p) =>
            /\ What(Events(p, "before")) = Hooks(op[p])
            /\ Over(p) => result[p] = Events(p, "return")[1].res
        /\ ((FailedAt(p) # 0 \/ TargetFailed(p)) /\ Over(p)) =>
            /\ pc[p] = "done"
            /\ What(Events(p, "after")) = Reverse(What(Events(p, "before")))

\* a publish was cancelled at the question engine and unwound through the locker
C4_Witness ==
    \E p \in Procs :
        /\ pc[p] = "done" /\ op[p] = "publishApplicationV2"
        /\ Has(p, "fail", QM) /\ result[p] = "UserCancelError"
        /\ What(Events(p, "after")) = <<SL2, EL2(FALSE), PSL, PM, CL, EH>>

\* the middleware of a pipeline
Listed(o) == {Hooks(o)[i] : i \in 1..Len(Hooks(o))}

\* the value of the last call the target made
CallOf(p) == Events(p, "call")[Len(Events(p, "call"))]

-----------------------------------------------------------------------------
(* Faults, API generations *)

\* C6 as the specification states it: the promise of a public operation always
\* resolves with a structured result; no fault escapes to the caller.
C6_NoFaultEscapes ==
    \A p \in Procs : pc[p] # "escaped"

\* the solution method a dispatching entry point is to invoke under the flag
Expected(e) ==
    LET g == IF apiV3 THEN "solutionV3." ELSE "solutionV2."
    IN  CASE e = "provisionResources" -> g \o "provisionResources"
          [] e = "deployArtifacts" -> g \o "deploy"
          [] e = "publishApplication" -> g \o "publishApplication"
          [] OTHER -> g \o "executeUserTask"

\* C7 as the specification states it: a dispatching operation whose pipeline went
\* through all its before phases invokes, exactly once, the solution method of the
\* API generation the flag selects.
C7_DispatchInvokesOnce ==
    \A p \in Procs :
        (/\ pc[p] = "done"
         /\ entry[p] \in {"provisionResources", "deployArtifacts", "publishApplication",
                          "executeUserTask"}
         /\ Events(p, "fail") = << >>
         /\ tin[p] = NoTin)
            => /\ Count(p, "call", Expected(entry[p])) = 1
               /\ Len(Events(p, "call")) = 1

V2Middleware == {EL2(FALSE), EL2(TRUE), SL2, EW2(FALSE), EW2(TRUE)}

V3Middleware == {EL3(FALSE), EL3(TRUE), SL3, EW3(FALSE), EW3(TRUE)}

V3Methods ==
    {"createProjectV3", "provisionResourcesV3", "deployArtifactsV3", "publishApplicationV3",
     "executeUserTaskV3", "getProjectConfigV3", "grantPermissionV3", "checkPermissionV3",
     "listCollaboratorV3", "addFeature"}

\* C8 as the specification states it: the pipeline of a V3 method contains no V2
\* loader, solution or writer, the pipeline of any other method no V3 one.
C8_GenerationsNotMixed ==
    \A p \in Procs :
        InFlight(p) =>
            /\ IF op[p] \in V3Methods
               THEN Listed(op[p]) \cap V2Middleware = {}
               ELSE Listed(op[p]) \cap V3Middleware = {}
            /\ ~(ctx[p].solutionV2 # "none" /\ ctx[p].solutionV3 # "none")

-----------------------------------------------------------------------------
(* Lock and writes *)

\* every write of the run to the project directory was made holding the lock
WritesUnderLock(p) ==
    \A i \in 1..Len(log[p]) : log[p][i].kind = "write" => log[p][i].held

\* C9 as the specification states it: every operation that writes to the project
\* directory has acquired the lock of the project path before, and holds it at each
\* of its writes.
C9_EveryWriteUnderLock ==
    \A p \in Procs : WritesUnderLock(p)

\* a run comes to fail with the lock error only while another run on its own path
\* is past the locker
C10_Step ==
    \A p \in Procs :
        (result'[p] = "ConcurrentError" /\ result[p] # "ConcurrentError")
            => \E q \in Procs \ {p} : path[q] = path[p] /\ InsideLock(q)

\* C10: the lock is per project path: a run fails at the locker only when another
\* run on the same path holds the lock, never because of a run on a different path,
\* so that runs on different paths go on side by side.
C10_LockPerPath == [][C10_Step]_vars

\* two runs on different paths are in their targets at the same time
C10_Witness ==
    \E p, q \in Procs :
        /\ path[p] # path[q]
        /\ InsideLock(p) /\ pc[p] = "target"
        /\ InsideLock(q) /\ pc[q] = "target"

-----------------------------------------------------------------------------
(* Declared order of the middleware *)

\* the part a middleware plays in the standard ordering, "other" when it has none
Role(mw) ==
    CASE mw = EH -> "ErrorHandler"
      [] mw = CL -> "ConcurrencyLock"
      [] mw = PM -> "ProjectMigrator"
      [] mw = PSL -> "ProjectSettingsLoader"
      [] mw \in {EL2(FALSE), EL2(TRUE), EL3(FALSE), EL3(TRUE)} -> "EnvironmentLoader"
      [] mw \in {SL2, SL3} -> "SolutionResolver"
      [] mw = QM -> "QuestionEngine"
      [] mw = CI -> "ContextInjector"
      [] mw = PSW -> "ProjectSettingsWriter"
      [] mw \in {EW2(FALSE), EW2(TRUE), EW3(FALSE), EW3(TRUE)} -> "EnvironmentWriter"
      [] OTHER -> "other"

StandardOrder ==
    <<"ErrorHandler", "ConcurrencyLock", "ProjectMigrator", "ProjectSettingsLoader",
      "EnvironmentLoader", "SolutionResolver", "QuestionEngine", "ContextInjector",
      "ProjectSettingsWriter", "EnvironmentWriter">>

\* the parts of a list in the order it declares them, the middleware without part left out
RolesOf(h) ==
    LET r == [i \in 1..Len(h) |-> Role(h[i])]
    IN  SelectSeq(r, LAMBDA x : x # "other")

\* the methods the claim names: provision, deploy, publish, local debug, execute user
\* task and add feature, in both generations
MutatingMethods ==
    {"provisionResourcesV2", "provisionResourcesV3", "deployArtifactsV2", "deployArtifactsV3",
     "publishApplicationV2", "publishApplicationV3", "localDebugV2", "executeUserTaskV2",
     "executeUserTaskV3", "addFeature"}

-----------------------------------------------------------------------------
(* Migration *)

\* C15 as the specification states it: a run that has loaded the project settings
\* works on a project that was migrated before; no run is past the settings loader
\* on a project still in the legacy format.
C15_MigratedBeforeLoad ==
    \A p \in Procs :
        ((InFlight(p) \/ Over(p)) /\ Has(p, "before", PSL)) => ~disk[path[p]].legacy

-----------------------------------------------------------------------------
(* The lock comes second *)

\* what must not run outside the lock: migration and the loading of the project
\* settings, the solution and the environment
Guarded == {PM} \cup Loaders

\* C16: in every pipeline that lists ConcurrentLockerMW it is the second middleware,
\* directly after ErrorHandlerMW, and in a run of such a pipeline the migrator, every
\* loader, the target, each call the target makes and each write happen while the
\* run holds the lock of its project path.
C16_LockSecond ==
    \A p \in Procs :
        (op[p] # "none" /\ CL \in Listed(op[p])) =>
            /\ Hooks(op[p])[1] = EH
            /\ Hooks(op[p])[2] = CL
            /\ \A i \in 1..Len(log[p]) :
                   (\/ log[p][i].kind \in {"target", "call", "write"}
                    \/ log[p][i].kind \in {"before", "fail"} /\ log[p][i].what \in Guarded)
                       => log[p][i].held

C16_Witness ==
    \E p \in Procs :
        /\ Clean(p)
        /\ op[p] = "executeUserTaskV2"
        /\ Has(p, "write", "migrate")
        /\ Has(p, "call", "solutionV2.executeUserTask")
        /\ \A i \in 1..Len(log[p]) : log[p][i].kind \in {"target", "call", "write"} => log[p][i].held

-----------------------------------------------------------------------------
(* Writers persist the final context *)

\* the positions of the log at which a writer middleware persisted a document
WriterWrites(p) ==
    {i \in 1..Len(log[p]) : log[p][i].kind = "write" /\ log[p][i].what \in Writers}

\* the document of the context that a solution call changes and writer w persists
SolutionDocument(w) == w \in {PSW, EW2(FALSE), EW3(FALSE)}

\* C17: a writer persists only after the target has returned (or thrown), never
\* between the start of the target and its end, and the document it persists is the
\* one the context holds when the target has finished: after a call of the solution
\* it is the document as that call left it, not the one the target started with.
C17_WritersPersistFinalContext ==
    \A p \in Procs :
        /\ pc[p] = "target" => WriterWrites(p) = {}
        /\ \A i \in WriterWrites(p) :
            /\ \E j \in 1..(i - 1) : log[p][j].kind \in {"return", "throw"}
            /\ \A j \in 1..Len(log[p]) : log[p][j].kind \in {"target", "call"} => j < i
            /\ pc[p] \in {"after", "done", "escaped"}
            /\ log[p][i].val = ToWrite(log[p][i].what, ctx[p])
            /\ (SolutionDocument(log[p][i].what) /\ Events(p, "call") # << >>
                /\ CallOf(p).what \in SolutionCalls) => log[p][i].val = CallOf(p).val

\* createProjectV2 set the settings, the solution changed them while it scaffolded,
\* and the settings writer persisted them as the solution left them
C17_Witness ==
    \E p \in Procs :
        /\ Clean(p)
        /\ op[p] = "createProjectV2"
        /\ Events(p, "call") # << >>
        /\ CallOf(p).val # OnDisk
        /\ \E i \in WriterWrites(p) :
            log[p][i].what = PSW /\ log[p][i].val = CallOf(p).val

-----------------------------------------------------------------------------
(* Consistency errors *)

\* a context field that the target of provision, deploy or publish expects is absent
FieldAbsent(o, c) ==
    IF o \in {"provisionResourcesV3", "deployArtifactsV3", "publishApplicationV3"}
    THEN ~c.injected \/ c.solutionV3 = "none" \/ ~c.contextV2 \/ c.envInfoV3 = Undef
    ELSE ~c.injected \/ c.solutionV2 = "none" \/ ~c.contextV2 \/ c.envInfoV2 = Undef

\* C19 as the specification states it: when the target of provision, deploy or
\* publish, of either generation, is reached with an expected context field absent,
\* it returns ObjectIsUndefinedError; it does not report success without having
\* invoked the solution.
C19_AbsentFieldIsAnError ==
    \A p \in Procs :
        (/\ op[p] \in StandardMutating \cup {"publishApplicationV3"}
         /\ Has(p, "target", op[p])
         /\ pc[p] \in {"after", "done"}
         /\ FieldAbsent(op[p], ctx[p])) =>
            /\ Events(p, "call") = << >>
            /\ Events(p, "return")[1].res = "ObjectIsUndefinedError"

-----------------------------------------------------------------------------
(* Local debug *)

\* the step in which the call of provisionLocalResource ends
C20_Step ==
    \A p \in Procs :
        (/\ pc[p] = "target"
         /\ pending[p] = "solutionV2.provisionLocalResource"
         /\ pc'[p] = "after") =>
            LET res == CallOf(p)'
            IN  /\ res.what = "solutionV2.provisionLocalResource"
                /\ res.res = "success" =>
                        ctx'[p].localSettings = res.val /\ result'[p] = "ok"
                /\ res.res = "partialSuccess" =>
                        ctx'[p].localSettings = res.val /\ result'[p] = "PluginError"
                /\ res.res = "failure" =>
                        /\ ctx'[p].localSettings = ctx[p].localSettings
                        /\ result'[p] = "PluginError"

\* C20: when provisionLocalResource ends, localDebugV2 maps its outcome three ways:
\* on success the local settings of the context become the output and the result is
\* ok; on partialSuccess they become the partial output and the result is the error
\* of the plugin; on failure they stay as they were before the call and the result
\* is the error of the plugin.
C20_ThreeWayResult == [][C20_Step]_vars

\* a local debug whose plugin failed with an output that the context did not take
C20_Witness ==
    \E p \in Procs :
        /\ pc[p] = "done"
        /\ op[p] = "localDebugV2"
        /\ Events(p, "call") # << >>
        /\ CallOf(p).res = "failure"
        /\ CallOf(p).val # ctx[p].localSettings
        /\ ctx[p].localSettings # Undef
        /\ result[p] = "PluginError"

-----------------------------------------------------------------------------
(* Creating a project *)

CreateMethods == {"createProjectV2", "createProjectV3"}

\* the step in which the body of the method of run p begins
TargetBegins(p) ==
    /\ pc[p] = "before"
    /\ idx[p] = Len(Hooks(op[p])) + 1
    /\ pc'[p] # "before"

\* the body of createProject begins where the directory folder/appName exists
OntoExisting(p) ==
    /\ TargetBegins(p)
    /\ op[p] \in CreateMethods
    /\ disk[path[p]].exists
    /\ tin'[p].folderOk

\* the run did nothing to the project directory and called no collaborator
NothingDone(p) == Events(p, "write") = << >> /\ Events(p, "call") = << >>

\* C11 as the specification states it: createProject onto an existing directory
\* always fails with ProjectFolderExistError and writes nothing.
C11_ExistingFolderAlwaysFails ==
    [][\A p \in Procs :
          OntoExisting(p) =>
              /\ result'[p] = "ProjectFolderExistError"
              /\ disk' = disk
              /\ NothingDone(p)']_vars

\* a run of createProject ended with ProjectFolderExistError
FolderExisted(p) ==
    /\ op[p] \in CreateMethods
    /\ Events(p, "return") # << >>
    /\ Events(p, "return")[1].res = "ProjectFolderExistError"

\* C11: createProject with an application name that matches ProjectNamePattern, onto
\* a directory folder/appName that exists, fails with ProjectFolderExistError and
\* leaves the directory as it is; a run that failed so has, up to its end, written
\* nothing, no environment config among it, and called no solution and no app-studio
\* method.  (With a name that does not match, the failure is InvalidInputError.)
C11_ExistingFolderFails ==
    /\ [][\A p \in Procs :
            (OntoExisting(p) /\ ProjectNamePattern(tin'[p].appName)) =>
                /\ result'[p] = "ProjectFolderExistError"
                /\ disk' = disk
                /\ NothingDone(p)']_vars
    /\ [](\A p \in Procs : FolderExisted(p) => NothingDone(p) /\ disk[path[p]].exists)

C11_Witness ==
    \E p \in Procs :
        /\ pc[p] = "done"
        /\ FolderExisted(p)
        /\ result[p] = "ProjectFolderExistError"
        /\ ProjectNamePattern(tin[p].appName)
        /\ tin[p].appName # OldName
        /\ disk[path[p]] = [Legacy EXCEPT !.legacy = FALSE]
        /\ NothingDone(p)

\* the methods that lay out a new project
CreateOrInit == CreateMethods \cup {"init"}

\* the body of a creating method ran with an application name, and the root folder
\* of the project could be made
Creating(p) ==
    /\ op[p] \in CreateOrInit
    /\ Has(p, "target", op[p])
    /\ tin[p].appName \in Names
    /\ tin[p].folderOk

\* a collaborator the method body called did not succeed, or the solution was not
\* found
CollaboratorFailed(p) ==
    \/ \E i \in 1..Len(log[p]) : log[p][i].kind = "call" /\ log[p][i].res # "ok"
    \/ result[p] \in {"ConcurrentError", "LoadSolutionError"}

\* C12: for every application name that matches ProjectNamePattern, creation from
\* scratch (createProject of either generation, init) goes on past its checks when
\* the target directory is absent, and when every collaborator succeeds it returns ok
\* and the settings document of the project carries that appName; for every name
\* that does not match, creation returns InvalidInputError, makes no project
\* directory and writes nothing.
C12_NameDecidesCreation ==
    /\ [][\A p \in Procs :
            (/\ TargetBegins(p)
             /\ op[p] \in CreateOrInit
             /\ tin'[p].appName \in Names
             /\ tin'[p].folderOk) =>
                IF ProjectNamePattern(tin'[p].appName)
                THEN (~disk[path[p]].exists \/ op[p] = "init") =>
                        /\ pc'[p] = "target" \/ result'[p] = "LoadSolutionError"
                        /\ disk'[path[p]].exists
                ELSE /\ result'[p] = "InvalidInputError"
                     /\ disk' = disk]_vars
    /\ [](\A p \in Procs :
            /\ (Creating(p) /\ ~ProjectNamePattern(tin[p].appName)) =>
                    /\ Events(p, "return") # << >>
                    /\ Events(p, "return")[1].res = "InvalidInputError"
                    /\ NothingDone(p)
            /\ (Creating(p) /\ ProjectNamePattern(tin[p].appName) /\ pc[p] = "done") =>
                    \/ /\ result[p] = "ok"
                       /\ disk[path[p]].exists
                       /\ disk[path[p]].appName = tin[p].appName
                    \/ FolderExisted(p)
                    \/ CollaboratorFailed(p))

\* a project was created under a name that matches, every collaborator succeeded,
\* and its settings on disk carry the name
C12_Witness ==
    \E p \in Procs :
        /\ Clean(p)
        /\ Creating(p)
        /\ op[p] = "createProjectV3"
        /\ tin[p].appName = <<"a", "1">>
        /\ ~CollaboratorFailed(p)
        /\ Has(p, "call", "addFeature")
        /\ disk[path[p]].appName = <<"a", "1">>

-----------------------------------------------------------------------------
(* Copying an environment *)

\* the step in which the body of createEnv runs: what it does to the directory dk of
\* the project, given what it read (t) and the context it was handed (c)
C13_Copy(p, c, t, dk, dk2) ==
    LET reached == c.injected /\ c.projectSettings # Undef /\ t.answered
        fails == ~t.copyOk \/ dk.envConfig[t.sourceEnv] = NoFile \/ t.sourceEnv = t.targetEnv
    IN  /\ (reached /\ fails) => (result'[p] = "CopyFileError" /\ dk2 = dk)
        /\ (reached /\ ~fails) =>
                /\ dk2.envConfig[t.targetEnv] = dk.envConfig[t.sourceEnv]
                /\ \A e \in EnvNames \ {t.targetEnv} : dk2.envConfig[e] = dk.envConfig[e]
                /\ dk2.envState = dk.envState
                /\ dk2.appName = dk.appName
                /\ dk2.exists = dk.exists /\ dk2.legacy = dk.legacy
                /\ result'[p] # "CopyFileError"
        /\ ~reached => dk2 = dk

\* C13: in a run of createEnv the copy makes the config of the target environment
\* equal to the config of the source environment and changes nothing else of the
\* project: not the config of another environment, not the state of any environment,
\* the target's among them; when fs.copy fails (the source config is missing, source
\* and target are the same, an I/O error) the result is CopyFileError and nothing
\* is changed; no other step of the run, up to and after the call of the solution,
\* touches the directory.
C13_CopyOnlyConfig ==
    [][\A p \in Procs :
          op[p] = "createEnv" =>
              IF TargetBegins(p)
              THEN C13_Copy(p, ctx[p], tin'[p], disk[path[p]], disk'[path[p]])
              ELSE disk' = disk]_vars

\* dev was copied to test: test has the config of dev, dev has a state document and
\* test has none
C13_Witness ==
    \E p \in Procs :
        /\ Clean(p)
        /\ op[p] = "createEnv"
        /\ Has(p, "write", "envConfigCopy")
        /\ tin[p].sourceEnv = DefaultEnv /\ tin[p].targetEnv = "test"
        /\ disk[path[p]].envConfig["test"] = disk[path[p]].envConfig[DefaultEnv]
        /\ disk[path[p]].envConfig["test"] # NoFile
        /\ DefaultEnv \in disk[path[p]].envState
        /\ "test" \notin disk[path[p]].envState

-----------------------------------------------------------------------------
(* The environments of a new project *)

\* a run that laid out a new project and returned ok
Created(p) == Clean(p) /\ op[p] \in CreateOrInit /\ Has(p, "target", op[p])

HasConfig(dk, e) == dk.envConfig[e] # NoFile

\* C18 as the specification states it: after a successful creation from scratch the
\* project has a config for the default environment and one for the local
\* environment.
C18_DefaultAndLocalAlways ==
    \A p \in Procs :
        Created(p) => HasConfig(disk[path[p]], DefaultEnv) /\ HasConfig(disk[path[p]], LocalEnv)

\* C18: after a successful creation from scratch the project has a config for the
\* default environment; after createProjectV3 and init it has a config for the local
\* environment too, written for getLocalAppName(appName); after createProjectV2 it
\* has the local one exactly when isConfigUnifyEnabled().
C18_DefaultAlwaysLocalWhenUnified ==
    \A p \in Procs :
        Created(p) =>
            LET dk == disk[path[p]]
            IN  /\ HasConfig(dk, DefaultEnv)
                /\ dk.envConfig[DefaultEnv] = newEnvConfigData(tin[p].appName)
                /\ op[p] \in {"createProjectV3", "init"} =>
                        dk.envConfig[LocalEnv] = newEnvConfigData(getLocalAppName(tin[p].appName))
                /\ op[p] = "createProjectV2" =>
                        /\ HasConfig(dk, LocalEnv) <=> configUnify
                        /\ configUnify =>
                             dk.envConfig[LocalEnv] =
                                newEnvConfigData(getLocalAppName(tin[p].appName))

\* createProjectV2 succeeded without config-unify: the project has the default
\* environment and no local one
C18_Witness ==
    \E p \in Procs :
        /\ Created(p)
        /\ op[p] = "createProjectV2"
        /\ ~configUnify
        /\ Has(p, "call", "solutionV2.generateResourceTemplate")
        /\ HasConfig(disk[path[p]], DefaultEnv)
        /\ ~HasConfig(disk[path[p]], LocalEnv)

-----------------------------------------------------------------------------
(* Cancellation *)

\* the body of createEnv ran on a loaded project and the user declined the prompt
Declined(p) ==
    /\ op[p] = "createEnv"
    /\ Has(p, "target", op[p])
    /\ ctx[p].projectSettings # Undef
    /\ ~tin[p].answered

\* C21: when the user declines the new-environment prompt, createEnv returns
\* UserCancelError, copies no environment config, does not call the createEnv of the
\* solution, and the run unwinds through the locker: when it is over the result is
\* UserCancelError and the lock of the project path is free.
C21_DeclinedPromptCancels ==
    \A p \in Procs :
        Declined(p) =>
            /\ Events(p, "return") # << >>
            /\ Events(p, "return")[1].res = "UserCancelError"
            /\ NothingDone(p)
            /\ pc[p] = "done" =>
                    /\ result[p] = "UserCancelError"
                    /\ Count(p, "after", CL) = 1
                    /\ lock[LockKey(path[p])] = Free

C21_Witness ==
    \E p \in Procs :
        /\ Declined(p)
        /\ pc[p] = "done"
        /\ result[p] = "UserCancelError"
        /\ disk[path[p]].envConfig[tin[p].targetEnv] = NoFile
        /\ Has(p, "after", CL)
        /\ lock[LockKey(path[p])] = Free

-----------------------------------------------------------------------------
(* One implementation per generation *)

\* the public operations with an entry point that branches on isV3()
Dispatching ==
    {"createProject", "provisionResources", "deployArtifacts", "localDebug",
     "publishApplication", "executeUserTask", "grantPermission", "checkPermission",
     "listCollaborator"}

\* the public operations with one hooked method and no branch on isV3() before it
SingleImplementation ==
    {"getQuestions", "getQuestionsForUserTask", "getProjectConfig", "encrypt", "decrypt",
     "createEnv", "init", "addFeature"}

\* the method of each generation behind a dispatching entry point, by its name
V2Of(e) == e \o "V2"
V3Of(e) == IF e = "localDebug" THEN "provisionResourcesV3" ELSE e \o "V3"

\* C22 as the specification states it: every public operation runs the
\* implementation of the generation that the V3 flag selects.
C22_EveryOperationHasTwo ==
    \A p \in Procs :
        (InFlight(p) /\ entry[p] \in Dispatching \cup SingleImplementation) =>
            (op[p] \in V3Methods <=> apiV3)

\* C22: create, provision, deploy, local-debug, publish, execute-user-task and
\* grant/check/list-collaborator have one method per generation and their entry
\* point runs exactly one of the two, the V3 one exactly when the flag is set (for
\* local-debug under V3 that is provisionResourcesV3); get-questions,
\* get-project-config, encrypt/decrypt, create-env, init and add-feature have a
\* single method that runs whatever the flag.
C22_NineDispatchTheOthersAreSingle ==
    \A p \in Procs :
        /\ (pc[p] # "idle" /\ entry[p] \in Dispatching) =>
                /\ op[p] = IF apiV3 THEN V3Of(entry[p]) ELSE V2Of(entry[p])
                /\ V2Of(entry[p]) # V3Of(entry[p])
                /\ op[p] \in V3Methods <=> apiV3
                /\ Len(Events(p, "target")) <= 1
                /\ \A i \in 1..Len(log[p]) : log[p][i].kind = "target" => log[p][i].what = op[p]
        /\ (pc[p] # "idle" /\ entry[p] \in SingleImplementation) =>
                /\ op[p] = entry[p]
                /\ Len(Events(p, "target")) <= 1

\* under V3 a local debug ran provisionResourcesV3, once
C22_Witness ==
    \E p \in Procs :
        /\ pc[p] = "done"
        /\ apiV3
        /\ entry[p] = "localDebug"
        /\ op[p] = "provisionResourcesV3"
        /\ Count(p, "target", "provisionResourcesV3") = 1

-----------------------------------------------------------------------------
(* Migration twice *)

\* the run is at the before phase of the migrator
AtMigrator(p) == pc[p] = "before" /\ idx[p] <= Len(Hooks(op[p])) /\ Cur(p) = PM

C23_Step ==
    /\ \A d \in Paths :
          /\ migrate(migrate(disk[d])) = migrate(disk[d])
          /\ (disk[d].exists /\ ~disk[d].legacy) => ~disk'[d].legacy
    /\ \A p \in Procs :
          (AtMigrator(p) /\ ~disk[path[p]].legacy /\ log'[p] # log[p]) =>
              /\ disk' = disk
              /\ log'[p] = Append(log[p], Ev(p, "before", PM, Undef, "none"))
              /\ result'[p] = result[p]
              /\ pc'[p] = "before"

-----------------------------------------------------------------------------
(* The lock contract *)

\* The locker on its own: each holder p has one handle, for the path it acquired
\* last; pc[p] is "held" from acquire to the first release of the handle and
\* "released" after it, and idx[p] counts the releases of the handle.
MaxRelease == 2

\* acquire(projectPath): a handle, or the "locked" error when one is outstanding
LockAcquire(p) ==
    /\ pc[p] \in {"idle", "released"}
    /\ \E d \in Paths :
          IF lock[LockKey(d)] = Free
          THEN /\ lock' = [lock EXCEPT ![LockKey(d)] = p]
               /\ pc' = [pc EXCEPT ![p] = "held"]
               /\ path' = [path EXCEPT ![p] = d]
               /\ idx' = [idx EXCEPT ![p] = 0]
               /\ result' = [result EXCEPT ![p] = "ok"]
          ELSE /\ result' = [result EXCEPT ![p] = "ConcurrentError"]
               /\ UNCHANGED <<lock, pc, path, idx>>
    /\ UNCHANGED <<entry, op, ctx, tin, pending, thrown, log, disk, apiV3, unitVars,
                   configUnify, currentStage>>

\* release(handle), the first time or again
LockRelease(p) ==
    /\ pc[p] \in {"held", "released"}
    /\ idx[p] < MaxRelease
    /\ lock' = [lock EXCEPT ![LockKey(path[p])] = release(@, p)]
    /\ pc' = [pc EXCEPT ![p] = "released"]
    /\ idx' = [idx EXCEPT ![p] = idx[p] + 1]
    /\ UNCHANGED <<entry, op, path, ctx, tin, pending, result, thrown, log, disk, apiV3, unitVars,
                   configUnify, currentStage>>

NextLock == \E p \in Procs : LockAcquire(p) \/ LockRelease(p)

SpecLock == Init /\ [][NextLock]_vars

C24_Step ==
    \A p \in Procs :
        /\ (pc[p] = "held" /\ idx'[p] = 1) => lock'[LockKey(path[p])] = Free
        /\ (pc[p] = "released" /\ idx'[p] = idx[p] + 1) => lock' = lock

-----------------------------------------------------------------------------
(* Writers after a failed before phase *)

\* a middleware of the run failed in its before phase
Failed(p) == Events(p, "fail") # << >>

\* C25 as the specification states it: a run that failed in a before phase has
\* written nothing to the project directory.
C25_FailedRunWritesNothing ==
    \A p \in Procs : Failed(p) => Events(p, "write") = << >>

\* what holds of the run of p in a state: with a writer's write in the log every
\* middleware has a before event and none failed; after a failure only after phases
\* follow, and what precedes it is before phases and at most the migration, none of
\* it when the locker failed
C25_Run(p) ==
    LET n == Len(log[p])
        failed == \E i \in 1..n : log[p][i].kind = "fail"
        lockFailed == \E i \in 1..n : log[p][i].kind = "fail" /\ log[p][i].what = CL
        wrote == \E i \in 1..n : log[p][i].kind = "write" /\ log[p][i].what \in Writers
    IN  /\ wrote =>
              /\ ~failed
              /\ Len(Events(p, "before")) = Len(Hooks(op[p]))
        /\ failed =>
              \A i \in 1..n :
                  /\ log[p][i].kind \in {"before", "fail", "after", "write"}
                  /\ log[p][i].kind = "write" => log[p][i].what = "migrate" /\ ~lockFailed
                  /\ (i > 1 /\ log[p][i - 1].kind \in {"fail", "after"}) =>
                        log[p][i].kind = "after"

\* C25: a writer writes only in runs in which every middleware of the list completed
\* its before phase. A run that fails to acquire the lock writes nothing; a run that
\* fails in migration, in a loader or in the question model runs no writer and no
\* target, and from the failure on it writes nothing to the project directory: the
\* only write it can have made is the migration that the migrator completed before
\* the failure. The lock of a run that is inside its locker stays its own, whatever
\* the failed runs on the same path do.
C25_WritersOnlyAfterEveryBefore ==
    \A p \in Procs :
        /\ C25_Run(p)
        /\ InsideLock(p) => lock[LockKey(path[p])] = p

\* a run failed to acquire the lock that the other run holds, and ended without a
\* write while the other run is still inside its lock
C25_Witness ==
    \E p, q \in Procs :
        /\ p # q
        /\ pc[p] = "done"
        /\ Has(p, "fail", CL)
        /\ Events(p, "write") = << >>
        /\ InsideLock(q)
        /\ path[q] = path[p]
        /\ lock[LockKey(path[p])] = q

-----------------------------------------------------------------------------
(* Two callers create the same project *)

\* the run of p is a createProject that got to its method body and is over
CreateOver(p) ==
    /\ pc[p] = "done"
    /\ op[p] \in CreateMethods
    /\ Has(p, "target", op[p])

\* C26 as the specification states it: of two createProject calls on the same
\* folder and application name at most one succeeds.
C26_AtMostOneCreates ==
    \A p, q \in Procs :
        (p # q /\ CreateOver(p) /\ CreateOver(q) /\ path[p] = path[q]
         /\ tin[p].appName = tin[q].appName) =>
            ~(result[p] = "ok" /\ result[q] = "ok")

-----------------------------------------------------------------------------
(* The steps of createProjectV2 *)

IsPrefix(a, b) == Len(a) <= Len(b) /\ \A i \in 1..Len(a) : a[i] = b[i]

\* what createProjectV2 from scratch does to the directory and calls, in the order
\* of the method body
CreateV2Order(t, unify) ==
    <<"projectDir", "basicFolderStructure", "envConfig.dev">>
        \o (IF unify THEN <<"envConfig.local">> ELSE << >>)
        \o <<"solutionV2.scaffoldSourceCode", "solutionV2.generateResourceTemplate">>
        \o (IF t.impl THEN <<"solutionV2.createEnv">> ELSE << >>)

\* the writes and calls that the method body of run p made, in order
BodySteps(p) ==
    SelectSeq(log[p], LAMBDA e : e.kind \in {"write", "call"} /\ e.what \notin Writers)

\* the run is in or past the body of createProjectV2 from scratch
CreatingV2(p) ==
    /\ op[p] = "createProjectV2"
    /\ Has(p, "target", op[p])
    /\ ~tin[p].existingApp

\* the number of writes that precede the lookup of the solution
MadeByV2 == IF configUnify THEN 4 ELSE 3

-----------------------------------------------------------------------------
(* A failed creation stays on disk *)

\* the body of a createProject run that follows a failed one has begun, with the
\* root folder in order
Retried(p) ==
    /\ p = 2
    /\ op[p] \in CreateMethods
    /\ Has(p, "target", op[p])
    /\ tin[p].folderOk

C28_Step ==
    /\ \A d \in Paths :
          /\ disk[d].exists => disk'[d].exists
          /\ \A e \in EnvNames : disk[d].envConfig[e] # NoFile => disk'[d].envConfig[e] # NoFile
    /\ \A p \in Procs :
          (op[p] \in CreateMethods /\ Has(p, "write", "projectDir")) => disk[path[p]].exists

\* C28: no step of createProjectV2 or createProjectV3, the failing one and the after
\* phases that follow it included, removes the project directory or an environment
\* config that the run made, and the call that is made again with the same folder and
\* application name after a failure fails with ProjectFolderExistError and makes no
\* write and no call.
C28_FailedCreationStays ==
    /\ [][C28_Step]_vars
    /\ [](\A p \in Procs :
            Retried(p) =>
                /\ Events(p, "return") # << >>
                /\ Events(p, "return")[1].res = "ProjectFolderExistError"
                /\ NothingDone(p)
                /\ pc[p] = "done" => result[p] = "ProjectFolderExistError")

\* the first call failed in a collaborator after it had made the directory, and the
\* call made again has ended with ProjectFolderExistError
C28_Witness ==
    /\ pc[1] = "done"
    /\ result[1] \in {"PluginError", "SystemError", "LoadSolutionError"}
    /\ Has(1, "write", "projectDir")
    /\ Retried(2)
    /\ pc[2] = "done"
    /\ result[2] = "ProjectFolderExistError"
    /\ disk[path[2]].exists

-----------------------------------------------------------------------------
(* No operation locks itself out *)

\* the hooked methods that a method body calls
NestedPipelines == {"addFeature"}

\* the body of method o calls a hooked method, for some inputs
CallsPipeline(o) ==
    \E t \in TinFor(o) : \E u \in BOOLEAN :
        \E i \in 1..Len(Rest(o, t, u)) : Rest(o, t, u)[i].call \in NestedPipelines

\* C29: a method whose body calls a hooked, lock-acquiring method (createProjectV3
\* calling addFeature) has no locker in its own list, so the lock of the path is
\* free when the nested pipeline asks for it; with one top-level operation at a time
\* no run and no call in it ends with the lock error.
C29_NoSelfLock ==
    /\ \A p \in Procs :
          (pc[p] = "before" /\ idx[p] = 1 /\ CallsPipeline(op[p])) =>
              \A k \in 1..Len(Hooks(op[p])) : Hooks(op[p])[k] # CL
    /\ \A p \in Procs :
          /\ result[p] # "ConcurrentError"
          /\ \A i \in 1..Len(log[p]) : log[p][i].res # "ConcurrentError"
          /\ (pc[p] = "target" /\ pending[p] \in NestedPipelines) =>
                /\ ~Has(p, "before", CL)
                /\ lock[LockKey(path[p])] = p

\* createProjectV3 called addFeature, which took the lock and gave it back, and the
\* operation ended ok
C29_Witness ==
    \E p \in Procs :
        /\ pc[p] = "done"
        /\ op[p] = "createProjectV3"
        /\ \E i \in 1..Len(log[p]) :
              log[p][i].kind = "call" /\ log[p][i].what = "addFeature" /\ log[p][i].res = "ok"
        /\ result[p] = "ok"
        /\ lock[LockKey(path[p])] = Free

-----------------------------------------------------------------------------
(* The current stage *)

\* the body of the method of run p has called setCurrentStage and has not returned
Executing(p) ==
    /\ pc[p] = "target"
    /\ StageOf(op[p]) # "none"

\* C30 as the specification states it: while the target of a run is executing, the
\* process-wide current stage is the stage of that operation, whatever the runs on
\* other project paths do meanwhile.
C30_StageIsOwn ==
    \A p \in Procs :
        (Executing(p) /\ \A q \in Procs \ {p} : InFlight(q) => path[q] # path[p]) =>
            currentStage = StageOf(op[p])

-----------------------------------------------------------------------------
(* Local debug *)

\* the middleware of the events of a run that are about a middleware
Touched(p) ==
    {log[p][i].what : i \in {j \in 1..Len(log[p]) : log[p][j].kind \in {"before", "after", "fail"}}}

\* C31: in a run of localDebug inputs.env is the name of the local environment,
\* whatever the caller passed; under V3 the run is one of provisionResourcesV3 and
\* of its pipeline only, with stage provision, under V2 one of localDebugV2 and its
\* pipeline, with stage debug.
C31_LocalDebugSetsEnvThenDispatches ==
    \A p \in Procs :
        (pc[p] # "idle" /\ entry[p] = "localDebug") =>
            /\ tin[p].env = LocalEnv
            /\ op[p] = IF apiV3 THEN "provisionResourcesV3" ELSE "localDebugV2"
            /\ StageOf(op[p]) = IF apiV3 THEN "provision" ELSE "debug"
            /\ \A i \in 1..Len(log[p]) : log[p][i].kind = "target" => log[p][i].what = op[p]
            /\ Len(Events(p, "target")) <= 1
            /\ Touched(p) \subseteq {Hooks(op[p])[k] : k \in 1..Len(Hooks(op[p]))}
            /\ Has(p, "target", op[p]) => currentStage = StageOf(op[p])

\* the caller passed the default environment and the run, one of provisionResourcesV3,
\* ended with the local one
C31_Witness ==
    \E p \in Procs :
        /\ pc[p] = "done"
        /\ entry[p] = "localDebug"
        /\ apiV3
        /\ tin[p].envGiven = DefaultEnv
        /\ tin[p].env = LocalEnv
        /\ Count(p, "target", "provisionResourcesV3") = 1
        /\ currentStage = "provision"

-----------------------------------------------------------------------------
(* Deploying an existing app *)

\* the solution's deploy was invoked by the run, or is in flight
DeployInvoked(p) ==
    pending[p] = "solutionV2.deploy" \/ Has(p, "call", "solutionV2.deploy")

\* C32: a run of deployArtifactsV2 on a pure existing app never invokes the solution's
\* deploy and ends with OperationNotSupportedForExistingAppError; with the project
\* settings absent from the context, whatever else the context holds, the method
\* returns ObjectIsUndefinedError and invokes nothing.
C32_ExistingAppIsNotDeployed ==
    \A p \in Procs :
        (op[p] = "deployArtifactsV2" /\ Has(p, "target", op[p])) =>
               /\ tin[p].pure =>
                      /\ ~DeployInvoked(p)
                      /\ Events(p, "return") # << >>
                      /\ Events(p, "return")[1].res = "OperationNotSupportedForExistingAppError"
                      /\ pc[p] = "done" => result[p] = "OperationNotSupportedForExistingAppError"
               /\ DeployInvoked(p) => ctx[p].projectSettings # Undef /\ ~tin[p].pure
               /\ \A i, b \in BOOLEAN, s \in {"none", "loaded"}, e \in {Undef, OnDisk} :
                      \A t \in TinFor("deployArtifactsV2") :
                          LET c == [NoCtx EXCEPT !.injected = i, !.contextV2 = b,
                                                 !.solutionV2 = s, !.envInfoV2 = e]
                          IN  deployArtifactsV2(c, t) = Ret("ObjectIsUndefinedError", c)

\* a run of deployArtifactsV2 on a pure existing app is over
C32_Witness ==
    \E p \in Procs :
        /\ pc[p] = "done"
        /\ op[p] = "deployArtifactsV2"
        /\ tin[p].pure
        /\ Has(p, "target", op[p])
        /\ result[p] = "OperationNotSupportedForExistingAppError"
        /\ ~DeployInvoked(p)

-----------------------------------------------------------------------------
(* Routing a user task *)

\* the solution's executeUserTask was invoked by the run, or is in flight
UserTaskInvoked(p) ==
    \E m \in {"solutionV2.executeUserTask", "solutionV3.executeUserTask"} :
        pending[p] = m \/ Has(p, "call", m)

\* the run of executeUserTaskV2 or executeUserTaskV3 has a solution in its context
HasSolution(p) ==
    IF op[p] = "executeUserTaskV2"
    THEN ctx[p].solutionV2 # "none" /\ ctx[p].envInfoV2 # Undef
    ELSE ctx[p].solutionV3 # "none" /\ ctx[p].envInfoV3 # Undef

\* C33: a run of executeUserTaskV2 or executeUserTaskV3 invokes the solution's
\* executeUserTask only when func.namespace is a non-empty string and the solution
\* implements executeUserTask; with an empty or undefined namespace, or with a
\* solution that has no executeUserTask, the target returns FunctionRouterError and
\* nothing of the solution is invoked.
C33_UserTaskIsRoutedOrRefused ==
    \A p \in Procs :
        (op[p] \in {"executeUserTaskV2", "executeUserTaskV3"} /\ Has(p, "target", op[p])) =>
            /\ UserTaskInvoked(p) => tin[p].nsOk /\ tin[p].impl
            /\ (~tin[p].nsOk \/ (~tin[p].impl /\ HasSolution(p))) =>
                   /\ ~UserTaskInvoked(p)
                   /\ \A i \in 1..Len(log[p]) : log[p][i].kind # "call"
                   /\ pending[p] = "none"
                   /\ Events(p, "return") # << >>
                   /\ Events(p, "return")[1].res = "FunctionRouterError"

\* a run with an empty namespace under V2 is over, refused
C33_Witness ==
    \E p \in Procs :
        /\ pc[p] = "done"
        /\ op[p] = "executeUserTaskV2"
        /\ ~tin[p].nsOk
        /\ result[p] = "FunctionRouterError"
        /\ ~UserTaskInvoked(p)

-----------------------------------------------------------------------------
(* Activating an environment *)

\* environmentManager.listRemoteEnvConfigs answered the run of activateEnv with the
\* outcome out
Looked(p, out) ==
    \E i \in 1..Len(log[p]) :
        /\ log[p][i].kind = "call"
        /\ log[p][i].what = "environmentManager.listRemoteEnvConfigs"
        /\ log[p][i].res = out

\* the run showed the message "[env] is activated.", or is about to
MessageShown(p) ==
    pending[p] = "ui.showMessage" \/ Has(p, "call", "ui.showMessage")

\* C34: a run of activateEnv whose env name is not in the list of remote environment
\* configs returns NonExistEnvNameError, leaves provisionInputConfig, provisionOutputs
\* and envName of the context as they were, does not load the solution context and
\* does not show the message; the message is shown, and the context changed, only
\* when the name is listed, and a run that showed the message returns ok.
C34_UnknownEnvIsNotActivated ==
    \A p \in Procs :
        (op[p] = "activateEnv" /\ Has(p, "target", op[p])) =>
            /\ Looked(p, "envNotListed") =>
                   /\ Events(p, "return") # << >>
                   /\ Events(p, "return")[1].res = "NonExistEnvNameError"
                   /\ pc[p] = "done" => result[p] = "NonExistEnvNameError"
                   /\ ctx[p].envName = Undef
                   /\ ~MessageShown(p)
                   /\ pending[p] = "none" /\ ~Has(p, "call", "loadSolutionContext")
            /\ (MessageShown(p) \/ ctx[p].envName # Undef) => Looked(p, "envListed")
            /\ (MessageShown(p) /\ Events(p, "return") # << >>) =>
                   Events(p, "return")[1].res = "ok"
            /\ (Looked(p, "envListed") /\ Events(p, "return") # << >>) =>
                   (MessageShown(p) /\ Events(p, "return")[1].res = "ok")

\* a run of activateEnv with a name that is not listed is over
C34_Witness ==
    \E p \in Procs :
        /\ pc[p] = "done"
        /\ op[p] = "activateEnv"
        /\ Looked(p, "envNotListed")
        /\ result[p] = "NonExistEnvNameError"
        /\ ctx[p].envName = Undef
        /\ ~MessageShown(p)

-----------------------------------------------------------------------------
(* Calling the units *)

\* the lists of components a project can have: each component once, in any order
ComponentLists ==
    {[k \in 1..Len(s) |-> [name |-> s[k], connections |-> << >>]] :
        s \in {q \in UNION {[1..n -> ComponentNames] : n \in 0..Cardinality(ComponentNames)} :
                  \A a, b \in 1..Len(q) : a # b => q[a] # q[b]}}

\* a caller holds one unit: a project folder and the inputs to call
\* ensureBasicFolderStructure with, the inputs of a createProjectV3, the settings of
\* a project to add the APIM feature to, or a new SubscriptionNode
InitUnits ==
    /\ pc = [p \in Procs |-> "idle"]
    /\ entry = [p \in Procs |-> "none"]
    /\ op = [p \in Procs |-> "none"]
    /\ path = [p \in Procs |-> "A"]
    /\ idx = [p \in Procs |-> 0]
    /\ ctx = [p \in Procs |-> NoCtx]
    /\ tin = [p \in Procs |-> NoTin]
    /\ pending = [p \in Procs |-> "none"]
    /\ result = [p \in Procs |-> "none"]
    /\ thrown = [p \in Procs |-> FALSE]
    /\ log = [p \in Procs |-> << >>]
    /\ lock = [d \in Paths |-> Free]
    /\ disk = [d \in Paths |-> Absent]
    /\ apiV3 = TRUE
    /\ configUnify \in BOOLEAN
    /\ currentStage = "none"
    /\ node = NewNode
    /\ lastCall = << >>
    /\ \/ /\ unit = "ensureBasicFolderStructure"
          /\ inputs \in {[NoInputs EXCEPT !.projectPath = d, !.platform = pf, !.appName = n] :
                            d \in {"A", "undefined"}, pf \in Platforms,
                            n \in FewNames \cup {NoName}}
          /\ folder \in {[packageJson |-> pj, gitignore |-> gi] :
                            pj \in {NoFile, << >>, packageJson(OldName)},
                            gi \in {NoFile, << >>, <<"node_modules">>}}
          /\ projectSetting = << >>
       \/ /\ unit = "createProjectV3"
          /\ inputs \in {[NoInputs EXCEPT !.platform = pf, !.capabilities = cs,
                                          !.existingApp = b] :
                            pf \in Platforms, cs \in SUBSET Capabilities, b \in BOOLEAN}
          /\ folder = NoFolder
          /\ projectSetting = << >>
       \/ /\ unit = "ApimFeature"
          /\ inputs = NoInputs
          /\ folder = NoFolder
          /\ projectSetting \in ComponentLists
       \/ /\ unit = "SubscriptionNode"
          /\ inputs = NoInputs
          /\ folder = NoFolder
          /\ projectSetting = << >>

\* await ensureBasicFolderStructure(inputs): what it returned, and the write that
\* failed in it
EnsureFolder ==
    /\ unit = "ensureBasicFolderStructure"
    /\ \E fault \in WriteFaults :
          LET r == ensureBasicFolderStructure(inputs, folder, configUnify, fault)
          IN  /\ folder' = r.folder
              /\ lastCall' = <<r.res, fault>>
    /\ UNCHANGED <<coreVars, unit, inputs, projectSetting, node>>

\* createProjectV3 from its write of the settings to its call of addFeature: the
\* features it passes, or no call for a project created from an existing app
CreateFeatures ==
    /\ unit = "createProjectV3"
    /\ lastCall' = IF inputs.existingApp THEN <<"ok">> ELSE <<"addFeature">> \o features(inputs)
    /\ UNCHANGED <<coreVars, unit, inputs, folder, projectSetting, node>>

\* ApimFeature.add(context, inputs); with the group the caller holds its action
\* apim-feature.configApim
ApimAdd ==
    /\ unit = "ApimFeature"
    /\ lastCall' = ApimFeature_add(projectSetting)
    /\ unit' = IF ApimFeature_add(projectSetting)[1] = "group"
               THEN "apim-feature.configApim" ELSE unit
    /\ UNCHANGED <<coreVars, inputs, folder, projectSetting, node>>

\* plan(context, inputs) of apim-feature.configApim
ApimPlan ==
    /\ unit = "apim-feature.configApim"
    /\ lastCall' = <<"plan">> \o configApim_plan(projectSetting)
    /\ UNCHANGED <<coreVars, unit, inputs, folder, projectSetting, node>>

\* execute(context, inputs) of apim-feature.configApim
ApimExecute ==
    /\ unit = "apim-feature.configApim"
    /\ LET r == configApim_execute(projectSetting)
       IN  /\ projectSetting' = r.projectSetting
           /\ lastCall' = <<"execute">> \o r.effects
    /\ UNCHANGED <<coreVars, unit, inputs, folder, node>>

\* setSubscription(subscription): the field is set before
\* AzureAccountManager.setSubscription is awaited
SetSubscription ==
    /\ unit = "SubscriptionNode"
    /\ \E s \in Subscriptions :
          /\ node' = [node EXCEPT !.subscription = s]
          /\ lastCall' = <<"setSubscription", s>>
    /\ UNCHANGED <<coreVars, unit, inputs, folder, projectSetting>>

\* unsetSubscription(subscriptionCount)
UnsetSubscription ==
    /\ unit = "SubscriptionNode"
    /\ \E n \in Vals :
          /\ node' = [node EXCEPT !.subscription = "undefined",
                                  !.label = TotalSubscriptionsLabel(n),
                                  !.tooltip = <<"undefined">>,
                                  !.contextValue = "selectSubscription",
                                  !.iconPath = "subscriptions"]
          /\ lastCall' = <<"unsetSubscription", ToString(n)>>
    /\ UNCHANGED <<coreVars, unit, inputs, folder, projectSetting>>

\* setEmptySubscription()
SetEmptySubscription ==
    /\ unit = "SubscriptionNode"
    /\ \E validProject \in BOOLEAN : node' = setEmptySubscription(node, validProject)
    /\ lastCall' = <<"setEmptySubscription">>
    /\ UNCHANGED <<coreVars, unit, inputs, folder, projectSetting>>

\* the tree view asks the node for its item
GetTreeItem ==
    /\ unit = "SubscriptionNode"
    /\ node' = getTreeItem(node)
    /\ UNCHANGED <<coreVars, unit, inputs, folder, projectSetting, lastCall>>

NextUnits ==
    \/ EnsureFolder
    \/ CreateFeatures
    \/ ApimAdd
    \/ ApimPlan
    \/ ApimExecute
    \/ SetSubscription
    \/ UnsetSubscription
    \/ SetEmptySubscription
    \/ GetTreeItem

SpecUnits == InitUnits /\ [][NextUnits]_vars

-----------------------------------------------------------------------------
(* The basic folder structure *)

\* every entry of es is a line of the file
HasEntries(file, es) ==
    \A k \in 1..Len(es) : \E j \in 1..Len(file) : file[j] = es[k]

\* one call of ensureBasicFolderStructure, whatever the folder held and whatever an
\* earlier call returned
C35_Call ==
    unit = "ensureBasicFolderStructure" =>
        /\ folder.packageJson # NoFile => folder'.packageJson = folder.packageJson
        /\ folder.gitignore # NoFile => folder'.gitignore = folder.gitignore
        /\ folder'.packageJson # folder.packageJson =>
               (inputs.platform # "vs" /\ folder'.packageJson = packageJson(inputs.appName))
        /\ folder'.gitignore # folder.gitignore =>
               /\ HasEntries(folder'.gitignore, LocalSecretEntries)
               /\ HasEntries(folder'.gitignore, <<"BuildFolderName">>)
        /\ inputs.projectPath = "undefined" =>
               (lastCall'[1] = "ObjectIsUndefinedError" /\ folder' = folder)
        /\ lastCall'[1] = "ok" =>
               /\ folder'.gitignore # NoFile
               /\ inputs.platform # "vs" => folder'.packageJson # NoFile

\* a call that follows another with the same inputs: the earlier one returned ok, or
\* the same fs.writeFile fails in both
C35_SecondCall ==
    /\ unit = "ensureBasicFolderStructure"
    /\ lastCall # << >>
    /\ lastCall[1] = "ok" \/ lastCall'[2] = lastCall[2]

\* C35: ensureBasicFolderStructure never overwrites an existing package.json or
\* .gitignore; it writes package.json only when the platform is not VS; a .gitignore
\* it writes holds the local-secret and the build-output entries; without
\* inputs.projectPath it returns ObjectIsUndefinedError and writes nothing; and it
\* is idempotent: a second call with the same inputs changes no file.
C35_FolderStructureIsKeptAndSeeded ==
    [][C35_Call /\ (C35_SecondCall => folder' = folder)]_vars

\* a call returned ok on a folder that had a package.json of another project and no
\* .gitignore: the package.json is as it was, the .gitignore is seeded
C35_Witness ==
    /\ unit = "ensureBasicFolderStructure"
    /\ lastCall = <<"ok", "none">>
    /\ inputs.platform = "cli"
    /\ inputs.appName # OldName
    /\ folder.packageJson = packageJson(OldName)
    /\ folder.gitignore = gitIgnoreContent("cli", configUnify)

-----------------------------------------------------------------------------
(* The features of a new project *)

\* the features of the addFeature call that createProjectV3 made
Passed == {lastCall[k] : k \in 2..Len(lastCall)}

\* C36: createProjectV3 passes to addFeature: aad exactly when the SPFx tab is not
\* selected; on platform VS dotnet and nothing else beside; on another platform
\* frontend exactly when Tab is selected, spfx exactly when the SPFx tab is selected
\* and Tab is not, bot exactly when Bot or MessageExtension is selected, and never
\* dotnet; each feature once.  For a project created from an existing app it does
\* not call addFeature.
C36_FeaturesOfTheCapabilities ==
    (unit = "createProjectV3" /\ lastCall # << >>) =>
        IF inputs.existingApp THEN lastCall[1] # "addFeature"
        ELSE /\ lastCall[1] = "addFeature"
             /\ Cardinality(Passed) = Len(lastCall) - 1
             /\ "aad" \in Passed <=> "TabSPFx" \notin inputs.capabilities
             /\ IF inputs.platform = "vs" THEN Passed \ {"aad"} = {"dotnet"}
                ELSE /\ Passed \subseteq {"aad", "frontend", "spfx", "bot"}
                     /\ "frontend" \in Passed <=> "Tab" \in inputs.capabilities
                     /\ "spfx" \in Passed <=>
                            ("TabSPFx" \in inputs.capabilities /\ "Tab" \notin inputs.capabilities)
                     /\ "bot" \in Passed <=>
                            inputs.capabilities \cap {"Bot", "MessageExtension"} # {}

\* an SPFx tab with a bot, off VS: addFeature is called with spfx and bot, without aad
C36_Witness ==
    /\ unit = "createProjectV3"
    /\ ~inputs.existingApp
    /\ inputs.platform = "vsc"
    /\ inputs.capabilities = {"TabSPFx", "Bot"}
    /\ lastCall = <<"addFeature", "spfx", "bot">>

-----------------------------------------------------------------------------
(* Adding the APIM feature *)

\* the component named n is among the components cs
Among(cs, n) == \E k \in 1..Len(cs) : cs[k].name = n

\* C37: ApimFeature.add returns no action when the project settings hold the apim
\* component; otherwise it returns a sequential group whose actions are, in this
\* order, the call of teams-api.add (there exactly when the project has no API
\* component), apim-feature.configApim, bicep.init, apim-feature.generateCode,
\* apim.generateBicep and apim-config.generateBicep; add itself leaves the settings
\* as they are.
C37_AddReturnsTheGroup ==
    [][unit = "ApimFeature" =>
          /\ projectSetting' = projectSetting
          /\ IF Among(projectSetting, "apim") THEN lastCall' = <<"undefined">>
             ELSE /\ Len(lastCall') >= 2
                  /\ lastCall'[1] = "group" /\ lastCall'[2] = "sequential"
                  /\ SubSeq(lastCall', 3, Len(lastCall')) =
                        (IF Among(projectSetting, "teams-api") THEN << >>
                         ELSE <<"teams-api.add">>)
                            \o <<"apim-feature.configApim", "bicep.init",
                                 "apim-feature.generateCode", "apim.generateBicep",
                                 "apim-config.generateBicep">>]_vars

\* add returned the group for a project with a tab and an API: it starts with
\* apim-feature.configApim
C37_Witness ==
    /\ unit = "apim-feature.configApim"
    /\ Among(projectSetting, "teams-api") /\ Among(projectSetting, "teams-tab")
    /\ ~Among(projectSetting, "apim")
    /\ Len(lastCall) = 7
    /\ lastCall[3] = "apim-feature.configApim"

-----------------------------------------------------------------------------
(* Configuring APIM *)

\* one call of plan or execute of apim-feature.configApim
C38_Call ==
    unit = "apim-feature.configApim" =>
        /\ lastCall'[1] = "plan" =>
               /\ projectSetting' = projectSetting
               /\ Len(lastCall') > 1 <=>
                      configApim_execute(projectSetting).projectSetting # projectSetting
        /\ (lastCall'[1] = "execute" /\ Among(projectSetting, "apim")) =>
               (projectSetting' = projectSetting /\ lastCall' = <<"execute">>)
        /\ (lastCall'[1] = "execute" /\ ~Among(projectSetting, "apim")) =>
               LET added == projectSetting'[Len(projectSetting')]
                   to == {added.connections[k] : k \in 1..Len(added.connections)}
               IN  /\ Len(projectSetting') = Len(projectSetting) + 1
                   /\ SubSeq(projectSetting', 1, Len(projectSetting)) = projectSetting
                   /\ added.name = "apim"
                   /\ to \subseteq {"teams-tab", "teams-bot"}
                   /\ "teams-tab" \in to <=> Among(projectSetting, "teams-tab")
                   /\ "teams-bot" \in to <=> Among(projectSetting, "teams-bot")
                   /\ Len(lastCall') = 2

\* C38: whatever executions of apim-feature.configApim were made, the project
\* settings hold at most one apim component: the first execution adds one,
\* connected to teams-tab exactly when a teams-tab component exists and to teams-bot
\* exactly when a teams-bot component exists, and reports one file effect; a later
\* execution changes nothing and reports no effect; and plan reports a change
\* exactly when execute would make one.
C38_ConfigApimAddsOnce ==
    /\ [](Cardinality({k \in 1..Len(projectSetting) : projectSetting[k].name = "apim"}) <= 1)
    /\ [][C38_Call]_vars

\* a later execution, on a project with a tab and a bot, reported no effect; the one
\* apim component is connected to both
C38_Witness ==
    /\ unit = "apim-feature.configApim"
    /\ lastCall = <<"execute">>
    /\ Len(projectSetting) = 3
    /\ projectSetting[3] = [name |-> "apim", connections |-> <<"teams-tab", "teams-bot">>]

-----------------------------------------------------------------------------
(* The subscription node of the account tree *)

\* the label that belongs to the last of the calls setSubscription,
\* unsetSubscription, setEmptySubscription
LabelOf(call) ==
    CASE call[1] = "setSubscription" -> <<call[2]>>
      [] call[1] = "unsetSubscription" ->
            <<"teamstoolkit.accountTree.totalSubscriptions", call[2]>>
      [] OTHER -> NoSubscriptionsLabel

\* C39: after every sequence of setSubscription, unsetSubscription and
\* setEmptySubscription calls, getTreeItem shows the label of the most recent one:
\* the name of the subscription after setSubscription, the count of subscriptions
\* after unsetSubscription, the no-subscriptions label after setEmptySubscription.
C39_TreeItemShowsLastCall ==
    (unit = "SubscriptionNode" /\ lastCall # << >>) =>
        getTreeItem(node).label = LabelOf(lastCall)

====
